------------------------- MODULE MCToolApplication -------------------------
(* A small instance of ToolApplication for TLC.                             *)
EXTENDS ToolApplication

RepliesDef == {<<"exec", "deliver">>, <<"write", "read">>, <<"partial">>, <<"ask">>}
SubmissionsDef == {<<"write", "deliver">>}

\* What was shown of a proposal, and of what it was made, matters no more once it
\* is answered for: its question, its approval and its launch are the only steps
\* that read it, and a token of an earlier proposal approves nothing.
Open(proposal) == proposal = Proposal
Seen ==
  <<journal, session, attempts, delivery, version, pc, arg, crashes, sent,
    [k \in DOMAIN ran |->
       IF Open(ran[k].proposal) THEN ran[k]
       ELSE [proposal |-> ran[k].proposal, attempt |-> ran[k].attempt]],
    {token \in shown : Open(token.proposal)}, {p \in unasked : Open(p)}>>
=============================================================================
