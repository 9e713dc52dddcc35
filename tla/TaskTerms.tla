------------------------------ MODULE TaskTerms ------------------------------
(***************************************************************************)
(* app/tool_application.py: what a caller changes about a task between     *)
(* runs.  supply() records new contracts together with an allowance,       *)
(* run(resource_allowances=...) an allowance alone and switch_model() a    *)
(* connection.  The terms live in three files that are written one after   *)
(* the other: actions.json, session_manifest.json and budget_ledger.json.  *)
(* Several processes load the task, each keeps copies of the three files,  *)
(* and the lock's freshness check compares the manifest only, in which the *)
(* time of the last save has whole seconds.                                *)
(***************************************************************************)
EXTENDS Integers, Sequences, FiniteSets, FiniteSetsExt, SequencesExt

CONSTANTS Procs,        \* processes that load the task
          Supplies,     \* ids of supply(); each id has fixed terms
          Continuations,\* ids of run(resource_allowances=...)
          Switches,     \* ids of switch_model()
          Amount,       \* requests each supply or continuation allows
          InitAttempts, \* BudgetState.max_attempts at creation
          InitRequests, \* the ledger's llm_requests limit at creation
          MaxUsed,      \* bound: attempts the runs spend
          MaxCrashes,   \* bound: processes that stop inside a call
          None

Allowances == Supplies \cup Continuations
NoCopy == [loaded |-> FALSE]

ASSUME TermsAssumption ==
  /\ IsFiniteSet(Allowances) /\ Amount \in [Allowances -> Nat]
  /\ Supplies \cap Continuations = {} /\ Allowances \cap Switches = {}
  /\ \A c \in Continuations : Amount[c] > 0
  /\ InitAttempts \in Nat /\ InitRequests \in Nat /\ MaxUsed \in Nat /\ MaxCrashes \in Nat
  /\ None \notin Procs \cup Supplies \cup Continuations \cup Switches

\* pending is pending_supply; supplies and switches are config in the order of
\* the calls that changed it.
Journal == [pending : Supplies \cup {None}, supplies : Seq(Supplies), switches : Seq(Switches)]
Manifest == [attempts : Nat, granted : SUBSET Allowances, used : Nat, paused : BOOLEAN]
\* grants: the user_authorization entries in order; spent: calls since the last.
Ledger == [grants : Seq(Allowances), spent : Nat]
NoJournal == [pending |-> None, supplies |-> <<>>, switches |-> <<>>]
NoLedger == [grants |-> <<>>, spent |-> 0]

Steps == {"out", "actions", "ledger", "idle", "journal", "intent", "grant", "allow",
          "revise", "commit", "committed", "work", "taken", "saved", "begin", "spend", "close",
          "count", "pausing"}

VARIABLES actions,   \* actions.json
          manifest,  \* session_manifest.json
          ledger,    \* budget_ledger.json
          open,      \* an attempt's own manifest says running
          copy,      \* the three as a process holds them
          fresh,     \* processes whose last loaded or saved manifest is the file
          lock,      \* holder of the session lock
          pc,
          job,       \* the id of the call a process is in
          crashes,
          returned,  \* history: ids whose call wrote its terms and returned
          exposed    \* history: of these, the ids returned while a copy loaded earlier
                     \* was still taken for the file

files == <<actions, manifest, ledger, open>>
termsVars == <<actions, manifest, ledger, open, copy, fresh, lock, pc, job, crashes, returned,
              exposed>>

TermsTypeOK ==
  /\ actions \in Journal /\ manifest \in Manifest /\ ledger \in Ledger
  /\ open \in BOOLEAN
  /\ fresh \subseteq Procs /\ lock \in Procs \cup {None}
  /\ pc \in [Procs -> Steps]
  /\ \A p \in Procs : pc[p] \in Steps \ {"out", "actions", "ledger"} =>
       /\ copy[p].actions \in Journal /\ copy[p].manifest \in Manifest /\ copy[p].ledger \in Ledger
  /\ returned \subseteq Allowances \cup Switches /\ exposed \subseteq returned
  /\ crashes \in 0 .. MaxCrashes

----------------------------------------------------------------------------
(* Files                                                                    *)

Go(p, from, to) == pc[p] = from /\ pc' = [pc EXCEPT ![p] = to]
Hold(p, part, value) == copy' = [copy EXCEPT ![p][part] = value]

\* session.save of a manifest that changed: status, revision, attempts or ids.
SaveManifest(p, value) ==
  /\ manifest' = value
  /\ copy' = [copy EXCEPT ![p].manifest = value]
  /\ fresh' = {p}

\* session.save where updated_at alone may change: within the second of the save
\* before, the file is the same and a copy loaded earlier still equals it.
SaveAgain(p) ==
  /\ fresh' \in {fresh, {p}}
  /\ UNCHANGED <<manifest, copy>>

\* BudgetState.authorize_additional
Granted(m, id) ==
  IF id \in m.granted THEN m
  ELSE [m EXCEPT !.attempts = @ + 10 * Amount[id], !.granted = @ \cup {id}]

\* BudgetLedger.authorize_remaining: a new allowance starts, once per id.
Allowed(l, id) ==
  IF id \in ToSet(l.grants) THEN l ELSE [grants |-> Append(l.grants, id), spent |-> 0]

RequestLimit(l) == IF l.grants = <<>> THEN InitRequests ELSE Amount[Last(l.grants)]
Exhausted(m) == m.used >= m.attempts

----------------------------------------------------------------------------
(* Loading: three files read without the lock                               *)

LoadManifest(p) ==
  /\ Go(p, "out", "actions")
  /\ copy' = [copy EXCEPT ![p] = [loaded |-> TRUE, manifest |-> manifest,
                                  actions |-> NoJournal, ledger |-> NoLedger]]
  /\ fresh' = fresh \cup {p}
  /\ UNCHANGED <<files, lock, job, crashes, returned, exposed>>

LoadActions(p) ==
  /\ Go(p, "actions", "ledger")
  /\ Hold(p, "actions", actions)
  /\ UNCHANGED <<files, fresh, lock, job, crashes, returned, exposed>>

LoadLedger(p) ==
  /\ Go(p, "ledger", "idle")
  /\ Hold(p, "ledger", ledger)
  /\ UNCHANGED <<files, fresh, lock, job, crashes, returned, exposed>>

Leave(p) ==
  /\ pc' = [pc EXCEPT ![p] = "out"]
  /\ copy' = [copy EXCEPT ![p] = NoCopy]
  /\ fresh' = fresh \ {p}
  /\ job' = [job EXCEPT ![p] = None]
  /\ lock' = IF lock = p THEN None ELSE lock

Exit(p) ==
  /\ pc[p] = "idle"
  /\ Leave(p)
  /\ UNCHANGED <<files, crashes, returned, exposed>>

\* The process stops, or an exception ends it, wherever it is.
Stop(p) ==
  /\ pc[p] \notin {"out", "idle"} /\ crashes < MaxCrashes
  /\ crashes' = crashes + 1
  /\ Leave(p)
  /\ UNCHANGED <<files, returned, exposed>>

\* Fault: the manifest on disk is not compared with the loaded one.
EntersStale(p) == pc[p] = "idle" /\ lock = None

\* mutation_scope
Enters(p) == pc[p] = "idle" /\ lock = None /\ p \in fresh

Call(p, id, step) ==
  /\ lock' = p /\ job' = [job EXCEPT ![p] = id] /\ pc' = [pc EXCEPT ![p] = step]

Done(p, id) ==
  /\ returned' = returned \cup {id}
  /\ exposed' = IF fresh' = {p} THEN exposed \ {id} ELSE exposed \cup {id}

----------------------------------------------------------------------------
(* supply                                                                   *)

\* The same id again, once it is recorded, changes nothing.
CanSupply(p, s) ==
  LET a == copy[p].actions
  IN /\ ~open
     /\ a.pending \in {None, s}
     /\ s \notin ToSet(a.supplies)
     /\ ~Exhausted(Granted(copy[p].manifest, s))

Supply(p, s) ==
  /\ Enters(p) /\ CanSupply(p, s)
  /\ Call(p, s, "journal")
  /\ Hold(p, "actions", [copy[p].actions EXCEPT !.pending = s])
  /\ UNCHANGED <<files, fresh, crashes, returned, exposed>>

\* Fault: the intent is not journaled before the budgets change.
WriteNothing(p) ==
  /\ Go(p, "journal", "intent")
  /\ UNCHANGED <<files, copy, fresh, lock, job, crashes, returned, exposed>>

WriteIntent(p) ==
  /\ Go(p, "journal", "intent")
  /\ actions' = copy[p].actions
  /\ UNCHANGED <<manifest, ledger, open, copy, fresh, lock, job, crashes, returned, exposed>>

SaveIntent(p) ==
  /\ Go(p, "intent", IF Amount[job[p]] > 0 THEN "grant" ELSE "revise")
  /\ SaveAgain(p)
  /\ UNCHANGED <<actions, ledger, open, lock, job, crashes, returned, exposed>>

\* _authorize_resources: the session's attempts first, then the ledger.
GrantAttempts(p) ==
  /\ Go(p, "grant", "allow")
  /\ IF job[p] \in copy[p].manifest.granted THEN SaveAgain(p)
     ELSE SaveManifest(p, Granted(copy[p].manifest, job[p]))
  /\ UNCHANGED <<actions, ledger, open, lock, job, crashes, returned, exposed>>

AllowRequests(p) ==
  /\ Go(p, "allow", IF job[p] \in Supplies THEN "revise" ELSE "commit")
  /\ LET allowed == Allowed(copy[p].ledger, job[p])
     IN /\ Hold(p, "ledger", allowed)
        /\ ledger' = IF allowed = copy[p].ledger THEN ledger ELSE allowed
  /\ UNCHANGED <<actions, manifest, open, fresh, lock, job, crashes, returned, exposed>>

\* The contracts change in memory; continue_with_revision saves the session.
Revise(p) ==
  /\ Go(p, "revise", "commit")
  /\ LET held == [copy[p] EXCEPT !.actions.pending = None,
                                 !.actions.supplies = Append(@, job[p])]
     IN IF held.manifest.paused
        THEN /\ manifest' = [held.manifest EXCEPT !.paused = FALSE]
             /\ copy' = [copy EXCEPT ![p] = [held EXCEPT !.manifest = manifest']]
             /\ fresh' = {p}
        ELSE copy' = [copy EXCEPT ![p] = held] /\ UNCHANGED <<manifest, fresh>>
  /\ UNCHANGED <<actions, ledger, open, lock, job, crashes, returned, exposed>>

WriteTerms(p) ==
  /\ Go(p, "commit", "committed")
  /\ actions' = copy[p].actions
  /\ UNCHANGED <<manifest, ledger, open, copy, fresh, lock, job, crashes, returned, exposed>>

\* _save ends; supply and switch_model return, a continuation goes on to run.
SaveTerms(p) ==
  /\ Go(p, "committed", IF job[p] \in Continuations THEN "work" ELSE "idle")
  /\ IF job[p] \in Continuations /\ copy[p].manifest.paused
     THEN SaveManifest(p, [copy[p].manifest EXCEPT !.paused = FALSE])
     ELSE SaveAgain(p)
  /\ Done(p, job[p])
  /\ job' = [job EXCEPT ![p] = None]
  /\ lock' = IF job[p] \in Continuations THEN p ELSE None
  /\ UNCHANGED <<actions, ledger, open, crashes>>

----------------------------------------------------------------------------
(* switch_model, and run with or without an allowance                       *)

SwitchModel(p, w) ==
  /\ Enters(p)
  /\ ~open
  /\ copy[p].actions.pending = None /\ w \notin ToSet(copy[p].actions.switches)
  /\ Call(p, w, "commit")
  /\ Hold(p, "actions", [copy[p].actions EXCEPT !.switches = Append(@, w)])
  /\ UNCHANGED <<files, fresh, crashes, returned, exposed>>

\* Fault: a run does not look for an interrupted supply.
MayRunAnyway(p) == Enters(p)

MayRun(p) == Enters(p) /\ copy[p].actions.pending = None

Continue(p, c) ==
  /\ MayRun(p) /\ ~open
  /\ Call(p, c, "grant")
  /\ UNCHANGED <<files, copy, fresh, crashes, returned, exposed>>

\* A paused task is reopened (continue_with_revision) when nothing is left running.
Run(p) ==
  /\ MayRun(p)
  /\ Call(p, None, "work")
  /\ LET m == copy[p].manifest
     IN IF m.paused /\ ~open /\ ~Exhausted(m)
        THEN SaveManifest(p, [m EXCEPT !.paused = FALSE])
        ELSE UNCHANGED <<manifest, copy, fresh>>
  /\ UNCHANGED <<actions, ledger, open, crashes, returned, exposed>>

\* An operation of the run: its id is taken from the session, journaled and
\* saved, its attempt begins, its request is charged to the ledger (module
\* BudgetLedger), and the attempt is closed before the session counts it (module
\* Session).
TakeId(p) ==
  /\ Go(p, "work", "taken")
  /\ ~open /\ ~Exhausted(copy[p].manifest) /\ copy[p].manifest.used < MaxUsed
  /\ SaveManifest(p, copy[p].manifest)    \* next_attempt_sequence
  /\ UNCHANGED <<actions, ledger, open, lock, job, crashes, returned, exposed>>

WriteWork(p) ==
  /\ Go(p, "taken", "saved")
  /\ actions' = copy[p].actions
  /\ UNCHANGED <<manifest, ledger, open, copy, fresh, lock, job, crashes, returned, exposed>>

SaveWork(p) ==
  /\ Go(p, "saved", "begin")
  /\ SaveAgain(p)
  /\ UNCHANGED <<actions, ledger, open, lock, job, crashes, returned, exposed>>

\* The attempt's manifest says running, then the session is saved.
Begin(p) ==
  /\ Go(p, "begin", "spend")
  /\ open' = TRUE
  /\ SaveManifest(p, copy[p].manifest)    \* current_attempt
  /\ UNCHANGED <<actions, ledger, lock, job, crashes, returned, exposed>>

Spend(p) ==
  /\ Go(p, "spend", "close")
  /\ copy[p].ledger.spent < RequestLimit(copy[p].ledger)
  /\ ledger' = [copy[p].ledger EXCEPT !.spent = @ + 1]
  /\ Hold(p, "ledger", ledger')
  /\ UNCHANGED <<actions, manifest, open, fresh, lock, job, crashes, returned, exposed>>

\* The ledger refuses: the attempt fails and is counted.
SpendRefused(p) ==
  /\ Go(p, "spend", "close")
  /\ copy[p].ledger.spent >= RequestLimit(copy[p].ledger)
  /\ UNCHANGED <<files, copy, fresh, lock, job, crashes, returned, exposed>>

CloseWork(p) ==
  /\ Go(p, "close", "count")
  /\ open' = FALSE
  /\ UNCHANGED <<actions, manifest, ledger, copy, fresh, lock, job, crashes, returned, exposed>>

CountWork(p) ==
  /\ Go(p, "count", "work")
  /\ SaveManifest(p, [copy[p].manifest EXCEPT !.used = @ + 1])
  /\ UNCHANGED <<actions, ledger, open, lock, job, crashes, returned, exposed>>

\* recover_interrupted, or the reconciliation of an attempt left running.
Recover(p) ==
  /\ Enters(p) /\ open
  /\ open' = FALSE
  /\ SaveManifest(p, [copy[p].manifest EXCEPT !.used = @ + 1])
  /\ UNCHANGED <<actions, ledger, lock, pc, job, crashes, returned, exposed>>

\* run ends: an exception in it, or the caller, has the journal saved as well.
WritePause(p) ==
  /\ Go(p, "work", "pausing")
  /\ actions' = copy[p].actions
  /\ UNCHANGED <<manifest, ledger, open, copy, fresh, lock, job, crashes, returned, exposed>>

PauseRun(p) ==
  /\ Go(p, pc[p], "idle") /\ pc[p] \in {"work", "pausing"}
  /\ IF copy[p].manifest.paused THEN SaveAgain(p)
     ELSE SaveManifest(p, [copy[p].manifest EXCEPT !.paused = TRUE])
  /\ lock' = None /\ job' = [job EXCEPT ![p] = None]
  /\ UNCHANGED <<actions, ledger, open, crashes, returned, exposed>>

----------------------------------------------------------------------------
TermsInit ==
  /\ actions = NoJournal
  /\ manifest = [attempts |-> InitAttempts, granted |-> {}, used |-> 0, paused |-> FALSE]
  /\ ledger = NoLedger /\ open = FALSE
  /\ copy = [p \in Procs |-> NoCopy]
  /\ fresh = {} /\ lock = None
  /\ pc = [p \in Procs |-> "out"] /\ job = [p \in Procs |-> None]
  /\ crashes = 0 /\ returned = {} /\ exposed = {}

Step(p) ==
  \/ WriteIntent(p) \/ SaveIntent(p) \/ GrantAttempts(p) \/ AllowRequests(p) \/ Revise(p)
  \/ WriteTerms(p) \/ SaveTerms(p)
  \/ TakeId(p) \/ WriteWork(p) \/ SaveWork(p) \/ Begin(p) \/ Spend(p) \/ SpendRefused(p)
  \/ CloseWork(p) \/ CountWork(p) \/ WritePause(p) \/ PauseRun(p)

TermsNext ==
  \E p \in Procs :
    \/ LoadManifest(p) \/ LoadActions(p) \/ LoadLedger(p) \/ Exit(p) \/ Stop(p)
    \/ \E s \in Supplies : Supply(p, s)
    \/ \E c \in Continuations : Continue(p, c)
    \/ \E w \in Switches : SwitchModel(p, w)
    \/ Run(p) \/ Recover(p)
    \/ Step(p)

TermsSpec == TermsInit /\ [][TermsNext]_termsVars

----------------------------------------------------------------------------
(* Properties                                                               *)

Working(p) == pc[p] \in {"work", "taken", "saved", "begin", "spend", "close", "count", "pausing"}

\* However often a call is repeated after a stop, by whichever process: each
\* allowance is in the session's attempts once and in the ledger once.
AllowanceAppliedOnce ==
  /\ manifest.attempts = InitAttempts + 10 * MapThenSumSet(LAMBDA g : Amount[g], manifest.granted)
  /\ IsInjective(ledger.grants) /\ IsInjective(actions.supplies)

\* The ledger never has an allowance the session does not know: the two files
\* are written one after the other (_authorize_resources 3927-3930).
LedgerFollowsSession == ToSet(ledger.grants) \subseteq manifest.granted

\* What a supply granted is still journaled as pending, or its contracts are
\* in the config: "A crash cannot expose a new allowance to the old task
\* configuration" (1606-1607).
GrantIsJournaled ==
  \A s \in Supplies \cap (manifest.granted \cup ToSet(ledger.grants)) :
    s = actions.pending \/ s \in ToSet(actions.supplies)

\* The three files agree on what was granted, wherever a process stops
\* between two writes and however often the call is repeated.
GrantsAgree == AllowanceAppliedOnce /\ LedgerFollowsSession /\ GrantIsJournaled

\* Nothing runs on an allowance without the contracts it was granted with,
\* also not a process that loaded the files one by one while another wrote them.
NoWorkUnderHalfSupply ==
  \A p \in Procs : Working(p) =>
    Supplies \cap (manifest.granted \cup ToSet(ledger.grants)) \subseteq ToSet(copy[p].actions.supplies)

\* A call that returned stays in effect: no process that loaded the task
\* earlier writes its own copy of a file over it.  An allowance has no exception
\* in the manifest, nor a supply's in the ledger.  The contracts of a supply and
\* a model switch stay unless the call returned while a process with an older
\* copy was still let in: it changed nothing else in the manifest (a switch, a
\* supply without an allowance, one whose allowance was granted before) within
\* the second of the save before it.  Of a continuation only the attempts are
\* promised: while a repeated one finds its allowance in the copy it loaded,
\* authorize_remaining does not write the file (budget.py 341-343), and a process
\* with an older copy of the ledger may have written it since.
ReturnedStays ==
  /\ (returned \cap Supplies) \ exposed \subseteq ToSet(actions.supplies)
  /\ (returned \cap Switches) \ exposed \subseteq ToSet(actions.switches)
  /\ \A g \in returned \cap Allowances : Amount[g] > 0 =>
       g \in manifest.granted /\ (g \in Supplies => g \in ToSet(ledger.grants))
=============================================================================
