------------------------- MODULE ControlLedger_proofs -------------------------
(***************************************************************************)
(* Proofs about ControlLedger, for any number of processes, keys, commands *)
(* and kills: what the ledger entry of a key guarantees to the commands    *)
(* that claim it, and what that is worth to the active candidate.          *)
(***************************************************************************)
EXTENDS ControlLedger, TLAPS

USE NamesAssumption, BoundsAssumption

-----------------------------------------------------------------------------
(* Types *)

\* What every step of a process does to its place and its last outcome.
Places(p) ==
    /\ at' \in [Callers -> Steps]
    /\ outcome' \in [Callers -> Outcomes]
    /\ \A q \in Callers : q # p => at'[q] = at[q]

LEMMA GotoPlaces ==
    ASSUME TypeOK, NEW p \in Callers, NEW step \in Steps, Goto(p, step)
    PROVE  Places(p) /\ at'[p] = step
BY DEF TypeOK, Goto, Places

LEMMA EndPlaces ==
    ASSUME TypeOK, NEW p \in Callers, NEW how \in Outcomes, End(p, how)
    PROVE  Places(p) /\ at'[p] = "idle"
BY DEF TypeOK, End, Places, Steps

LEMMA CommandPlaces ==
    ASSUME TypeOK, NEW p \in Callers, Command(p) \/ Kill(p)
    PROVE  Places(p)
<1>0. /\ \A step \in Steps : Goto(p, step) => Places(p)
      /\ \A how \in Outcomes : End(p, how) => Places(p)
  BY GotoPlaces, EndPlaces
<1>1. result[p].status \in {"executed", "failed"}
  BY DEF TypeOK, Results
<1>2. CASE Resolve(p) \/ Claim(p) \/ Note(p) \/ Answer(p) \/ Begin(p)
  BY <1>0, <1>2 DEF Resolve, Claim, ClaimIf, Note, Answer, AnswerFor, Begin, Steps, Outcomes
<1>3. CASE Validate(p) \/ Restore(p) \/ Inspect(p) \/ Complete(p)
  BY <1>0, <1>1, <1>3 DEF Validate, Restore, Inspect, InspectFor, Complete, Steps, Outcomes
<1>4. CASE Target(p) \/ Clone(p) \/ Checkout(p)
  BY <1>0, <1>4 DEF Target, Clone, Checkout, CheckedOut, Steps, Outcomes
<1>5. CASE Open(p) \/ Truncate(p) \/ Write(p) \/ Build(p) \/ Agent(p) \/ Kill(p)
  BY <1>0, <1>5 DEF Open, Truncate, Write, Build, Agent, Kill, Steps, Outcomes
<1> QED  BY <1>2, <1>3, <1>4, <1>5 DEF Command

\* TypeOK but for the places.
DataOK ==
    /\ ledger \in [Keys -> Entries]
    /\ recorded \in Workspaces
    /\ stateFile \in {"readable", "empty", "garbled"}
    /\ candidate \in [Candidates -> {"absent", "partial", "whole"}]
    /\ work \in [Candidates -> SUBSET Kinds]
    /\ command \in [Callers -> Commands]
    /\ key \in [Callers -> Keys \cup {NoKey}]
    /\ workspace \in [Callers -> Workspaces]
    /\ result \in [Callers -> Results]
    /\ calls \in 0..MaxCalls
    /\ crashes \in 0..MaxCrashes
    /\ runs \in [Keys -> Nat]
    /\ answers \subseteq [key : Keys, command : Commands, result : Results]

LEMMA DataOfTypeOK == TypeOK => DataOK
BY DEF TypeOK, DataOK

\* The steps for which a command needs a key.
Keyed == {"claim", "answer", "note", "begin", "target", "clone", "checkout",
          "open", "truncate", "write", "build", "agent", "restore", "inspect"}

KeyOK == \A p \in Callers : at[p] \in Keyed => key[p] \in Keys

\* The steps that only a command with an active candidate reaches.
InCandidate == {"open", "truncate", "write", "build", "agent", "restore", "inspect"}

WorkspaceOK == \A p \in Callers : at[p] \in InCandidate => workspace[p] \in Candidates

LEMMA ClaimedTypes ==
    ASSUME ledger \in [Keys -> Entries], NEW k \in Keys,
           ledger' = [ledger EXCEPT ![k].state = "claimed"]
    PROVE  ledger' \in [Keys -> Entries]
BY DEF Entries

LEMMA StartedTypes ==
    ASSUME ledger \in [Keys -> Entries], NEW k \in Keys, NEW c \in Commands,
           ledger' = [ledger EXCEPT ![k].state = "started", ![k].command = c]
    PROVE  ledger' \in [Keys -> Entries]
BY DEF Entries

LEMMA FailedTypes ==
    ASSUME result \in [Callers -> Results], NEW p \in Callers,
           result' = [result EXCEPT ![p].status = "failed"]
    PROVE  result' \in [Callers -> Results]
BY DEF Results

LEMMA StartTypes ==
    ASSUME TypeOK, NEW p \in Callers, NEW c \in Commands, NEW k \in Keys \cup {NoKey},
           Start(p, c, k)
    PROVE  DataOK' /\ Places(p)
<1>1. Places(p)
  BY GotoPlaces DEF Start, Steps
<1>2. calls' \in 0..MaxCalls
  BY DEF Start, TypeOK
<1> QED
  BY <1>1, <1>2 DEF Start, TypeOK, DataOK, files, ghosts

LEMMA CommandTypes ==
    ASSUME TypeOK, KeyOK, WorkspaceOK, NEW p \in Callers, Command(p) \/ Kill(p)
    PROVE  DataOK'
<1> USE DataOfTypeOK
<1>1. CASE Resolve(p)
  BY <1>1 DEF Resolve, DataOK, files, arguments, bounds, ghosts
<1>2. CASE Claim(p)
  <2>1. key[p] \in Keys
    BY <1>2 DEF Claim, ClaimIf, KeyOK, Keyed
  <2>2. ledger' \in [Keys -> Entries]
    <3>1. \/ ledger' = [ledger EXCEPT ![key[p]].state = "claimed"]
          \/ ledger' = ledger
      BY <1>2, Zenon DEF Claim, ClaimIf
    <3> QED
      BY <3>1, <2>1, ClaimedTypes DEF DataOK
  <2> QED
    BY <1>2, <2>1, <2>2 DEF Claim, ClaimIf, DataOK, arguments, bounds, ghosts
<1>3. CASE Note(p)
  <2>1. key[p] \in Keys
    BY <1>3 DEF Note, KeyOK, Keyed
  <2>2. ledger' \in [Keys -> Entries]
    <3>1. \/ ledger' = [ledger EXCEPT ![key[p]].state = "started", ![key[p]].command = command[p]]
          \/ ledger' = ledger
      BY <1>3, Zenon DEF Note
    <3> QED
      BY <3>1, <2>1, StartedTypes DEF DataOK
  <2> QED
    BY <1>3, <2>1, <2>2 DEF Note, DataOK, arguments, bounds
<1>4. CASE Answer(p)
  <2>1. key[p] \in Keys
    BY <1>4 DEF Answer, AnswerFor, KeyOK, Keyed
  <2> QED
    BY <1>4, <2>1 DEF Answer, AnswerFor, Answers, DataOK, Entries, files, arguments, bounds
<1>5. CASE Begin(p) \/ Target(p) \/ Open(p) \/ Build(p)
  BY <1>5 DEF Begin, Target, Open, Build, Silent, DataOK, Results, Workspaces, files,
     arguments, bounds, ghosts
<1>6. CASE Validate(p)
  <2>1. result' \in [Callers -> Results]
    BY <1>6 DEF Validate, DataOK, Results
  <2>2. work' \in [Candidates -> SUBSET Kinds]
    <3>1. \/ work' = work
          \/ \E left \in SUBSET {"outside"} :
                work' = [c \in Candidates |->
                           IF c = workspace[p] THEN work[c] \cup left ELSE work[c]]
      BY <1>6, Zenon DEF Validate
    <3>2. \A left \in SUBSET {"outside"}, c \in Candidates :
             work[c] \cup left \in SUBSET Kinds /\ work[c] \in SUBSET Kinds
      BY DEF DataOK, Kinds
    <3> QED
      BY <3>1, <3>2 DEF DataOK
  <2> QED
    BY <1>6, <2>1, <2>2 DEF Validate, DataOK, arguments, bounds, ghosts
<1>7. CASE Complete(p)
  BY <1>7 DEF Complete, Answers, DataOK, Entries, arguments, bounds
<1>8. CASE Restore(p)
  BY <1>8 DEF Restore, DataOK, Kinds, arguments, bounds, ghosts
<1>9. CASE Inspect(p)
  <2>1. result' \in [Callers -> Results]
    <3>1. result' = result \/ result' = [result EXCEPT ![p].status = "failed"]
      BY <1>9, Zenon DEF Inspect, InspectFor
    <3> QED
      BY <3>1, FailedTypes DEF DataOK
  <2> QED
    BY <1>9, <2>1 DEF Inspect, InspectFor, DataOK, files, arguments, bounds, ghosts
<1>10. CASE Clone(p) \/ Checkout(p)
  <2>1. Mine(p) \in Candidates
    BY <1>10 DEF Clone, Checkout, KeyOK, Keyed, Mine
  <2> QED
    BY <1>10, <2>1 DEF Clone, Checkout, CheckedOut, Removed, Put, CandidateStep, DataOK,
       Workspaces, Kinds, arguments, bounds, ghosts
<1>11. CASE Truncate(p) \/ Write(p)
  BY <1>11 DEF Truncate, Write, RecordStep, DataOK, Workspaces, arguments, bounds, ghosts
<1>12. CASE Agent(p)
  BY <1>12 DEF Agent, DataOK, arguments, bounds, ghosts
<1>13. CASE Kill(p)
  BY <1>13 DEF Kill, DataOK, files, arguments, ghosts
<1> QED
  BY <1>1, <1>2, <1>3, <1>4, <1>5, <1>6, <1>7, <1>8, <1>9, <1>10, <1>11, <1>12, <1>13
     DEF Command

\* What a step has to respect for the keys and workspaces to be in place.
LEMMA CommandKeyOK ==
    ASSUME TypeOK, KeyOK, WorkspaceOK, NEW p \in Callers, Command(p) \/ Kill(p)
    PROVE  KeyOK' /\ WorkspaceOK'
<1>0. Places(p) /\ at \in [Callers -> Steps]
  BY CommandPlaces DEF TypeOK
<1>1. key' = key
  BY DEF Command, Kill, Resolve, Claim, ClaimIf, Note, Answer, AnswerFor, Begin, Validate,
     Complete, Restore, Inspect, InspectFor, Target, Clone, Checkout, CandidateStep, Open,
     Truncate, Write, RecordStep, Build, Agent, Silent, arguments
<1>2. at'[p] \in Keyed => key[p] \in Keys
  <2>1. at[p] \in Keyed => key[p] \in Keys
    BY DEF KeyOK
  <2>2. key[p] \in Keys \cup {NoKey}
    BY DEF TypeOK
  <2>3. CASE Resolve(p)
    BY <2>3, <2>2, <1>0 DEF Resolve, Goto, End, Keyed
  <2>4. CASE Claim(p) \/ Note(p) \/ Answer(p) \/ Begin(p)
    BY <2>4, <2>1, <1>0 DEF Claim, ClaimIf, Note, Answer, AnswerFor, Begin, Goto, End, Keyed
  <2>5. CASE Validate(p) \/ Complete(p) \/ Restore(p) \/ Inspect(p) \/ Kill(p)
    BY <2>5, <2>1, <1>0 DEF Validate, Complete, Restore, Inspect, InspectFor, Kill, Goto, End,
       Keyed
  <2>6. CASE Target(p) \/ Clone(p) \/ Checkout(p) \/ Open(p)
    BY <2>6, <2>1, <1>0 DEF Target, Clone, Checkout, CheckedOut, Open, Goto, End, Keyed
  <2>7. CASE Truncate(p) \/ Write(p) \/ Build(p) \/ Agent(p)
    BY <2>7, <2>1, <1>0 DEF Truncate, Write, Build, Agent, Goto, End, Keyed
  <2> QED
    BY <2>3, <2>4, <2>5, <2>6, <2>7 DEF Command
<1>3. /\ \A q \in Callers : q # p => workspace'[q] = workspace[q]
      /\ at'[p] \in InCandidate => workspace'[p] \in Candidates
  <2>1. /\ at[p] \in InCandidate => workspace[p] \in Candidates
        /\ workspace \in [Callers -> Workspaces]
    BY DEF WorkspaceOK, TypeOK
  <2>2. CASE Resolve(p) \/ Claim(p) \/ Note(p) \/ Answer(p)
    BY <2>2, <2>1, <1>0 DEF Resolve, Claim, ClaimIf, Note, Answer, AnswerFor, Goto, End,
       InCandidate
  <2>3. CASE Begin(p)
    BY <2>3, <2>1, <1>0 DEF Begin, Goto, InCandidate, Workspaces
  <2>4. CASE Validate(p) \/ Complete(p) \/ Restore(p) \/ Inspect(p) \/ Kill(p)
    BY <2>4, <2>1, <1>0 DEF Validate, Complete, Restore, Inspect, InspectFor, Kill, Goto, End,
       InCandidate
  <2>5. CASE Target(p) \/ Open(p) \/ Truncate(p) \/ Write(p) \/ Build(p) \/ Agent(p)
    BY <2>5, <2>1, <1>0 DEF Target, Open, Truncate, Write, Build, Agent, RecordStep, Silent,
       Goto, End, InCandidate
  <2>6. CASE Clone(p) \/ Checkout(p)
    <3>1. Mine(p) \in Candidates
      BY <2>6 DEF Clone, Checkout, KeyOK, Keyed, Mine
    <3> QED
      BY <2>6, <2>1, <3>1, <1>0 DEF Clone, Checkout, CheckedOut, Goto, End, InCandidate
  <2> QED
    BY <2>2, <2>3, <2>4, <2>5, <2>6 DEF Command
<1> QED
  BY <1>0, <1>1, <1>2, <1>3 DEF KeyOK, WorkspaceOK, Places

TypeInv == TypeOK /\ KeyOK /\ WorkspaceOK

LEMMA TypeInit == Init => TypeInv
BY DEF Init, TypeInv, TypeOK, KeyOK, WorkspaceOK, Keyed, InCandidate, NoEntry, Entries, Results,
   Commands, Workspaces, Kinds, Steps, Outcomes

LEMMA TypeStep == TypeInv /\ [Next]_vars => TypeInv'
<1> SUFFICES ASSUME TypeInv, [Next]_vars PROVE TypeInv'
  OBVIOUS
<1> USE DEF TypeInv
<1>1. ASSUME NEW p \in Callers, NEW c \in Commands, NEW k \in Keys \cup {NoKey}, Start(p, c, k)
      PROVE  TypeInv'
  <2>1. DataOK' /\ Places(p)
    BY <1>1, StartTypes
  <2>2. KeyOK' /\ WorkspaceOK'
    BY <1>1 DEF Start, Goto, KeyOK, WorkspaceOK, Keyed, InCandidate, TypeOK
  <2> QED
    BY <2>1, <2>2 DEF DataOK, Places, TypeOK
<1>2. ASSUME NEW p \in Callers, Command(p) \/ Kill(p)
      PROVE  TypeInv'
  BY <1>2, CommandPlaces, CommandTypes, CommandKeyOK DEF DataOK, Places, TypeOK
<1>3. CASE UNCHANGED vars
  BY <1>3 DEF vars, files, arguments, bounds, ghosts, TypeOK, KeyOK, WorkspaceOK
<1> QED
  BY <1>1, <1>2, <1>3 DEF Next

\* The variables of the control interface keep their ranges.
THEOREM ControlTypeOK == Spec => []TypeOK
<1>1. TypeInv => TypeOK
  BY DEF TypeInv
<1> QED
  BY TypeInit, TypeStep, <1>1, PTL DEF Spec

-----------------------------------------------------------------------------
(* The ledger: who claimed a key holds it until it ends, and nobody else    *)
(* ever claims it again                                                     *)

Working == {"begin", "target", "clone", "checkout", "open", "truncate", "write",
            "build", "agent", "restore", "inspect", "validate", "complete"}

Holds(p, k) == key[p] = k /\ at[p] \in Working \cup {"note"}

OneHolder == \A p \in Callers, q \in Callers, k \in Keys : Holds(p, k) /\ Holds(q, k) => p = q

HeldEntries ==
    \A p \in Callers, k \in Keys :
        Holds(p, k) => ledger[k].state = IF at[p] = "note" THEN "claimed" ELSE "started"

RunsCounted ==
    \A k \in Keys : runs[k] = IF ledger[k].state \in {"free", "claimed"} THEN 0 ELSE 1

AnswersKept ==
    \A a \in answers :
        /\ ledger[a.key].state = "completed"
        /\ ledger[a.key].command = a.command
        /\ ledger[a.key].result = a.result

LedgerInv == OneHolder /\ HeldEntries /\ RunsCounted /\ AnswersKept

\* A step that leaves the ledger alone and gives nobody a key.
Quiet(p) ==
    /\ UNCHANGED <<ledger, runs, answers, key>>
    /\ \A q \in Callers : q # p => at'[q] = at[q]
    /\ \/ at'[p] \notin Working \cup {"note"}
       \/ key[p] \notin Keys
       \/ at[p] \in Working /\ at'[p] \in Working

LEMMA QuietCommands ==
    ASSUME TypeInv, NEW p \in Callers,
           \/ Resolve(p) \/ Begin(p) \/ Validate(p) \/ Restore(p) \/ Inspect(p) \/ Target(p)
           \/ Clone(p) \/ Checkout(p) \/ Open(p) \/ Truncate(p) \/ Write(p) \/ Build(p)
           \/ Agent(p) \/ Kill(p)
    PROVE  Quiet(p)
<1>0. Places(p) /\ at \in [Callers -> Steps]
  BY CommandPlaces DEF Command, TypeInv, TypeOK
<1>1. UNCHANGED <<ledger, runs, answers, key>>
  BY DEF Resolve, Begin, Validate, Restore, Inspect, InspectFor, Target, Clone, Checkout,
     CandidateStep, Open, Truncate, Write, RecordStep, Build, Agent, Kill, Silent, files,
     arguments, ghosts
<1>2. CASE Resolve(p)
  BY <1>0, <1>1, <1>2 DEF Resolve, Goto, End, Quiet, Places, Working
<1>3. CASE Begin(p) \/ Validate(p) \/ Restore(p) \/ Inspect(p) \/ Kill(p)
  BY <1>0, <1>1, <1>3 DEF Begin, Validate, Restore, Inspect, InspectFor, Kill, Goto, End, Quiet,
     Places, Working
<1>4. CASE Target(p) \/ Clone(p) \/ Checkout(p) \/ Open(p)
  BY <1>0, <1>1, <1>4 DEF Target, Clone, Checkout, CheckedOut, Open, Goto, End, Quiet, Places,
     Working
<1>5. CASE Truncate(p) \/ Write(p) \/ Build(p) \/ Agent(p)
  BY <1>0, <1>1, <1>5 DEF Truncate, Write, Build, Agent, Goto, End, Quiet, Places, Working
<1> QED
  BY <1>2, <1>3, <1>4, <1>5

LEMMA QuietKeepsLedger ==
    ASSUME TypeInv, LedgerInv, NEW p \in Callers, Quiet(p)
    PROVE  LedgerInv'
<1>1. \A q \in Callers, k \in Keys : Holds(q, k)' => Holds(q, k)
  BY DEF Quiet, Holds
<1>2. \A q \in Callers, k \in Keys : Holds(q, k)' => (at'[q] = "note" <=> at[q] = "note")
  BY DEF Quiet, Holds, Working
<1> QED
  BY <1>1, <1>2 DEF LedgerInv, OneHolder, HeldEntries, RunsCounted, AnswersKept, Quiet

LEMMA ClaimKeepsLedger ==
    ASSUME TypeInv, LedgerInv, NEW p \in Callers, Claim(p)
    PROVE  LedgerInv'
<1>0. Places(p) /\ key[p] \in Keys /\ ledger \in [Keys -> Entries] /\ key' = key
  BY CommandPlaces DEF Command, TypeInv, TypeOK, KeyOK, Keyed, Claim, ClaimIf, arguments
<1>1. CASE ledger[key[p]].state # "free"
  <2>1. at'[p] = "answer" /\ UNCHANGED <<ledger, runs, answers>>
    BY <1>1, GotoPlaces DEF Claim, ClaimIf, Steps, ghosts, TypeInv
  <2> QED
    BY <2>1, <1>0, QuietKeepsLedger DEF Quiet, Places, Working
<1>2. CASE ledger[key[p]].state = "free"
  <2>1. /\ ledger' = [ledger EXCEPT ![key[p]].state = "claimed"]
        /\ UNCHANGED <<runs, answers>>
        /\ at'[p] = "note"
    BY <1>2, GotoPlaces DEF Claim, ClaimIf, Steps, ghosts, TypeInv
  <2>2. /\ ledger'[key[p]].state = "claimed"
        /\ \A k \in Keys : k # key[p] => ledger'[k] = ledger[k]
    BY <2>1, <1>0 DEF Entries
  <2>3. \A q \in Callers : ~Holds(q, key[p])
    BY <1>2, <1>0 DEF LedgerInv, HeldEntries
  <2>4. \A q \in Callers, k \in Keys :
           Holds(q, k)' => \/ q = p /\ k = key[p]
                           \/ q # p /\ k # key[p] /\ Holds(q, k) /\ at'[q] = at[q]
    BY <2>3, <1>0 DEF Holds, Places
  <2>5. OneHolder' /\ HeldEntries'
    BY <2>1, <2>2, <2>4 DEF LedgerInv, OneHolder, HeldEntries
  <2>6. RunsCounted'
    BY <1>2, <2>1, <2>2 DEF LedgerInv, RunsCounted
  <2>7. \A a \in answers : a.key # key[p] /\ a.key \in Keys
    BY <1>2 DEF LedgerInv, AnswersKept, TypeInv, TypeOK
  <2>8. AnswersKept'
    BY <2>1, <2>2, <2>7 DEF LedgerInv, AnswersKept
  <2> QED
    BY <2>5, <2>6, <2>8 DEF LedgerInv
<1> QED
  BY <1>1, <1>2

LEMMA NoteKeepsLedger ==
    ASSUME TypeInv, LedgerInv, NEW p \in Callers, Note(p)
    PROVE  LedgerInv'
<1>0. /\ Places(p) /\ key[p] \in Keys /\ command[p] \in Commands
      /\ ledger \in [Keys -> Entries] /\ runs \in [Keys -> Nat]
      /\ key' = key /\ answers' = answers
  BY CommandPlaces DEF Command, TypeInv, TypeOK, KeyOK, Keyed, Note, arguments
<1>1. CASE UNCHANGED <<ledger, runs>> /\ End(p, "error")
  <2>1. at'[p] = "idle"
    BY <1>1, EndPlaces DEF Outcomes, TypeInv
  <2> QED
    BY <2>1, <1>0, <1>1, QuietKeepsLedger DEF Quiet, Places, Working
<1>2. CASE /\ ledger' = [ledger EXCEPT ![key[p]].state = "started",
                                        ![key[p]].command = command[p]]
           /\ runs' = [runs EXCEPT ![key[p]] = @ + 1]
           /\ Goto(p, "begin")
  <2>1. at'[p] = "begin"
    BY <1>2, GotoPlaces DEF Steps, TypeInv
  <2>2. /\ ledger'[key[p]].state = "started"
        /\ \A k \in Keys : k # key[p] => ledger'[k] = ledger[k]
    BY <1>2, <1>0 DEF Entries
  <2>3. Holds(p, key[p]) /\ ledger[key[p]].state = "claimed"
    BY <1>0 DEF Note, Holds, LedgerInv, HeldEntries
  <2>4. \A q \in Callers, k \in Keys :
           Holds(q, k)' => /\ Holds(q, k)
                           /\ q # p => at'[q] = at[q] /\ k # key[p]
                           /\ q = p => k = key[p]
    BY <2>1, <2>3, <1>0 DEF Holds, Places, LedgerInv, OneHolder
  <2>5. OneHolder' /\ HeldEntries'
    BY <2>1, <2>2, <2>4 DEF LedgerInv, OneHolder, HeldEntries
  <2>6. runs[key[p]] = 0
    BY <2>3, <1>0 DEF LedgerInv, RunsCounted
  <2>7. runs'[key[p]] = 1 /\ \A k \in Keys : k # key[p] => runs'[k] = runs[k]
    BY <2>6, <1>0, <1>2
  <2>8. RunsCounted'
    BY <2>2, <2>7 DEF LedgerInv, RunsCounted
  <2>9. \A a \in answers : a.key # key[p] /\ a.key \in Keys
    BY <2>3 DEF LedgerInv, AnswersKept, TypeInv, TypeOK
  <2>10. AnswersKept'
    BY <1>0, <2>2, <2>9 DEF LedgerInv, AnswersKept
  <2> QED
    BY <2>5, <2>8, <2>10 DEF LedgerInv
<1> QED
  BY <1>1, <1>2 DEF Note

LEMMA AnswerKeepsLedger ==
    ASSUME TypeInv, LedgerInv, NEW p \in Callers, Answer(p)
    PROVE  LedgerInv'
<1>0. /\ Places(p) /\ at'[p] = "idle" /\ key[p] \in Keys
      /\ UNCHANGED <<ledger, runs, key>>
  <2>1. at'[p] = "idle"
    BY DEF Answer, AnswerFor, End, TypeInv, TypeOK
  <2> QED
    BY <2>1, CommandPlaces DEF Command, TypeInv, TypeOK, KeyOK, Keyed, Answer, AnswerFor,
       files, arguments
<1>1. OneHolder' /\ HeldEntries' /\ RunsCounted'
  <2>1. \A q \in Callers, k \in Keys : Holds(q, k)' => Holds(q, k) /\ at'[q] = at[q]
    BY <1>0 DEF Holds, Places, Working
  <2> QED
    BY <1>0, <2>1 DEF LedgerInv, OneHolder, HeldEntries, RunsCounted
<1>2. CASE answers' = answers
  BY <1>0, <1>1, <1>2 DEF LedgerInv, AnswersKept
<1>3. CASE /\ ledger[key[p]].state = "completed" /\ ledger[key[p]].command = command[p]
           /\ answers' = Answers(p, ledger[key[p]])
  BY <1>0, <1>1, <1>3 DEF LedgerInv, AnswersKept, Answers
<1> QED
  BY <1>2, <1>3 DEF Answer, AnswerFor

LEMMA CompleteKeepsLedger ==
    ASSUME TypeInv, LedgerInv, NEW p \in Callers, Complete(p)
    PROVE  LedgerInv'
<1>0. /\ Places(p) /\ at'[p] = "idle" /\ key' = key /\ runs' = runs
      /\ ledger \in [Keys -> Entries]
  <2>1. at'[p] = "idle"
    BY DEF Complete, End, TypeInv, TypeOK
  <2> QED
    BY <2>1, CommandPlaces DEF Command, TypeInv, TypeOK, Complete, arguments
<1>1. CASE UNCHANGED <<ledger, answers>>
  BY <1>0, <1>1, QuietKeepsLedger DEF Quiet, Places, Working
<1>2. CASE /\ key[p] # NoKey
           /\ ledger' = [ledger EXCEPT ![key[p]] =
                 [state |-> "completed", command |-> command[p], result |-> result[p]]]
           /\ answers' = Answers(p, ledger'[key[p]])
  <2>1. key[p] \in Keys
    BY <1>2 DEF TypeInv, TypeOK
  <2>2. /\ ledger'[key[p]] =
              [state |-> "completed", command |-> command[p], result |-> result[p]]
        /\ \A k \in Keys : k # key[p] => ledger'[k] = ledger[k]
    BY <1>0, <1>2, <2>1
  <2>3. Holds(p, key[p]) /\ ledger[key[p]].state = "started"
    BY <2>1 DEF Complete, Holds, Working, LedgerInv, HeldEntries
  <2>4. \A q \in Callers, k \in Keys :
           Holds(q, k)' => Holds(q, k) /\ k # key[p] /\ at'[q] = at[q]
    BY <1>0, <2>1, <2>3 DEF Holds, Places, Working, LedgerInv, OneHolder
  <2>5. OneHolder' /\ HeldEntries'
    BY <2>2, <2>4 DEF LedgerInv, OneHolder, HeldEntries
  <2>6. RunsCounted'
    BY <1>0, <2>1, <2>2, <2>3 DEF LedgerInv, RunsCounted
  <2>7. \A a \in answers : a.key # key[p] /\ a.key \in Keys
    BY <2>3 DEF LedgerInv, AnswersKept, TypeInv, TypeOK
  <2>8. AnswersKept'
    BY <1>2, <2>2, <2>7 DEF LedgerInv, AnswersKept, Answers
  <2> QED
    BY <2>5, <2>6, <2>8 DEF LedgerInv
<1> QED
  BY <1>1, <1>2 DEF Complete

LEMMA LedgerInit == Init => LedgerInv
BY DEF Init, LedgerInv, OneHolder, HeldEntries, RunsCounted, AnswersKept, Holds, Working,
   NoEntry

LEMMA LedgerStep == TypeInv /\ LedgerInv /\ [Next]_vars => LedgerInv'
<1> SUFFICES ASSUME TypeInv, LedgerInv, [Next]_vars PROVE LedgerInv'
  OBVIOUS
<1>1. ASSUME NEW p \in Callers, NEW c \in Commands, NEW k \in Keys \cup {NoKey}, Start(p, c, k)
      PROVE  LedgerInv'
  <2>1. /\ UNCHANGED <<ledger, runs, answers>>
        /\ at'[p] = "resolve"
        /\ \A q \in Callers : q # p => at'[q] = at[q] /\ key'[q] = key[q]
    BY <1>1 DEF Start, Goto, files, ghosts, TypeInv, TypeOK
  <2>2. \A q \in Callers, j \in Keys : Holds(q, j)' => Holds(q, j) /\ at'[q] = at[q]
    BY <2>1 DEF Holds, Working
  <2> QED
    BY <2>1, <2>2 DEF LedgerInv, OneHolder, HeldEntries, RunsCounted, AnswersKept
<1>2. ASSUME NEW p \in Callers, Command(p) \/ Kill(p)
      PROVE  LedgerInv'
  BY <1>2, QuietCommands, QuietKeepsLedger, ClaimKeepsLedger, NoteKeepsLedger,
     AnswerKeepsLedger, CompleteKeepsLedger DEF Command
<1>3. CASE UNCHANGED vars
  BY <1>3 DEF vars, files, arguments, bounds, ghosts, LedgerInv, OneHolder, HeldEntries,
     RunsCounted, AnswersKept, Holds
<1> QED
  BY <1>1, <1>2, <1>3 DEF Next

\* The work of a key is begun at most once, whoever sends it and dies where.
THEOREM KeyRunsOnce == Spec => []OneRunPerKey
<1>1. TypeInv /\ LedgerInv => OneRunPerKey
  BY DEF LedgerInv, RunsCounted, OneRunPerKey
<1> QED
  BY TypeInit, TypeStep, LedgerInit, LedgerStep, <1>1, PTL DEF Spec

\* All answers to a key agree in command and result.
THEOREM AnswersToAKeyAgree == Spec => []AnswersAgree
<1>1. TypeInv /\ LedgerInv => AnswersAgree
  BY DEF LedgerInv, AnswersKept, AnswersAgree, TypeInv, TypeOK
<1> QED
  BY TypeInit, TypeStep, LedgerInit, LedgerStep, <1>1, PTL DEF Spec

-----------------------------------------------------------------------------
(* The active candidate: who makes and removes a directory holds a key of   *)
(* its name, before the directory is recorded                               *)

\* Another key that was sent has the same directory.
Contested(k) ==
    \E j \in Keys \ {k} : CandidateOf[j] = CandidateOf[k] /\ ledger[j].state # "free"

\* The candidate is made and not yet recorded.
Made == {"open", "truncate", "write"}

MadeCandidates ==
    \A p \in Callers :
        at[p] \in Made =>
            /\ workspace[p] = Mine(p)
            /\ candidate[Mine(p)] = "whole" \/ Contested(key[p])

\* The steps of a reopen-repair up to recording its candidate.
Before == {"note", "begin", "target", "clone", "checkout"} \cup Made

UnrecordedYet ==
    /\ \A p \in Callers : at[p] \in Before => recorded # Mine(p) \/ Contested(key[p])
    /\ \A k \in Keys : ledger[k].state \in {"free", "claimed"} =>
          recorded # CandidateOf[k] \/ Contested(k)

CandidateInv == MadeCandidates /\ UnrecordedYet /\ ActiveCandidateIsWhole

\* No key that was sent is forgotten.
Onwards == \A k \in Keys : ledger[k].state # "free" => ledger'[k].state # "free"

LEMMA ContestedStays ==
    ASSUME Onwards
    PROVE  /\ \A k \in Keys : Contested(k) => Contested(k)'
           /\ \A c \in Candidates : Shared(c) => Shared(c)'
BY DEF Onwards, Contested, Shared

\* A step that neither makes, removes nor records a candidate, and moves no
\* process closer to doing so.
Aside(p) ==
    /\ UNCHANGED <<recorded, candidate, key>>
    /\ \A q \in Callers : q # p => at'[q] = at[q] /\ workspace'[q] = workspace[q]
    /\ at'[p] \in Made => at[p] \in Made /\ workspace'[p] = workspace[p]
    /\ at'[p] \in Before =>
          \/ at[p] \in Before
          \/ key[p] \in Keys /\ ledger[key[p]].state = "free"
    /\ \A k \in Keys : ledger'[k].state \in {"free", "claimed"} =>
          ledger[k].state \in {"free", "claimed"}
    /\ Onwards

LEMMA AsideKeepsCandidate ==
    ASSUME TypeInv, CandidateInv, NEW p \in Callers, Aside(p)
    PROVE  CandidateInv'
<1>0. /\ \A k \in Keys : Contested(k) => Contested(k)'
      /\ \A c \in Candidates : Shared(c) => Shared(c)'
      /\ \A q \in Callers : at[q] \in Before => key[q] \in Keys
      /\ \A q \in Callers : at[q] \in Made => at[q] \in Before
      /\ recorded \in Workspaces
  BY ContestedStays DEF Aside, TypeInv, TypeOK, KeyOK, Keyed, Before, Made
<1>1. MadeCandidates'
  <2> SUFFICES ASSUME NEW q \in Callers, at'[q] \in Made
               PROVE  /\ workspace'[q] = Mine(q)'
                      /\ candidate'[Mine(q)'] = "whole" \/ Contested(key[q])'
    BY DEF MadeCandidates
  <2>1. /\ at[q] \in Made /\ key[q] \in Keys
        /\ workspace'[q] = workspace[q] /\ key'[q] = key[q] /\ Mine(q)' = Mine(q)
    BY <1>0 DEF Aside, Mine
  <2>2. workspace[q] = Mine(q) /\ (candidate[Mine(q)] = "whole" \/ Contested(key[q]))
    BY <2>1 DEF CandidateInv, MadeCandidates
  <2>3. Contested(key[q]) => Contested(key[q])'
    BY <1>0, <2>1 DEF Aside, Contested
  <2> QED
    BY <2>1, <2>2, <2>3 DEF Aside
<1>2. UnrecordedYet'
  <2>1. ASSUME NEW k \in Keys, ledger'[k].state \in {"free", "claimed"}
        PROVE  recorded' # CandidateOf[k] \/ Contested(k)'
    BY <1>0, <2>1 DEF CandidateInv, UnrecordedYet, Aside
  <2>2. ASSUME NEW q \in Callers, at'[q] \in Before
        PROVE  recorded' # Mine(q)' \/ Contested(key[q])'
    <3>1. key[q] \in Keys /\ (at[q] \in Before \/ ledger[key[q]].state = "free")
      BY <1>0, <2>2 DEF Aside
    <3>2. recorded # Mine(q) \/ Contested(key[q])
      BY <3>1 DEF CandidateInv, UnrecordedYet, Mine
    <3>3. Contested(key[q]) => Contested(key[q])'
      BY <1>0, <3>1 DEF Aside, Contested
    <3> QED
      BY <3>2, <3>3 DEF Aside, Mine
  <2> QED
    BY <2>1, <2>2 DEF UnrecordedYet
<1>3. ActiveCandidateIsWhole'
  BY <1>0 DEF CandidateInv, ActiveCandidateIsWhole, Aside, Workspaces
<1> QED
  BY <1>1, <1>2, <1>3 DEF CandidateInv

\* A step that leaves the ledger alone too and does not come nearer.
LEMMA RetreatsAside ==
    ASSUME NEW p \in Callers, Places(p), UNCHANGED <<ledger, recorded, candidate, key, workspace>>,
           at'[p] \in Made => at[p] \in Made,
           at'[p] \in Before => at[p] \in Before
    PROVE  Aside(p)
BY DEF Aside, Onwards, Places

LEMMA AsideCommands ==
    ASSUME TypeInv, NEW p \in Callers,
           \/ Resolve(p) \/ Claim(p) \/ Note(p) \/ Answer(p) \/ Begin(p) \/ Validate(p)
           \/ Complete(p) \/ Restore(p) \/ Inspect(p) \/ Target(p) \/ Open(p) \/ Build(p)
           \/ Agent(p) \/ Kill(p)
    PROVE  Aside(p)
<1>0. /\ Places(p) /\ at \in [Callers -> Steps]
      /\ at[p] \in Keyed => key[p] \in Keys
      /\ ledger \in [Keys -> Entries] /\ workspace \in [Callers -> Workspaces]
  BY CommandPlaces DEF Command, TypeInv, TypeOK, KeyOK
<1>1. UNCHANGED <<recorded, candidate, key>>
  BY DEF Resolve, Claim, ClaimIf, Note, Answer, AnswerFor, Begin, Validate, Complete, Restore,
     Inspect, InspectFor, Target, Open, Build, Agent, Kill, Silent, files, arguments
<1>2. CASE Resolve(p)
  BY <1>0, <1>1, <1>2 DEF Resolve, Goto, End, Aside, Onwards, Places, Made, Before, files
<1>3. CASE Claim(p)
  <2>1. key[p] \in Keys
    BY <1>0, <1>3 DEF Claim, ClaimIf, Keyed
  <2>2. CASE ledger[key[p]].state = "free"
    <3>1. ledger' = [ledger EXCEPT ![key[p]].state = "claimed"] /\ workspace' = workspace
      BY <1>3, <2>2 DEF Claim, ClaimIf
    <3>2. /\ ledger'[key[p]].state = "claimed"
          /\ \A k \in Keys : k # key[p] => ledger'[k] = ledger[k]
      BY <3>1, <2>1, <1>0 DEF Entries
    <3>3. at'[p] = "note"
      BY <1>0, <1>3, <2>2 DEF Claim, ClaimIf, Goto
    <3> QED
      BY <1>0, <1>1, <2>1, <2>2, <3>1, <3>2, <3>3 DEF Aside, Onwards, Places, Made, Before
  <2>3. CASE ledger[key[p]].state # "free"
    BY <1>0, <1>1, <1>3, <2>3 DEF Claim, ClaimIf, Goto, Aside, Onwards, Places, Made, Before
  <2> QED
    BY <2>2, <2>3
<1>4. CASE Note(p)
  <2>1. key[p] \in Keys
    BY <1>0, <1>4 DEF Note, Keyed
  <2>2. CASE /\ ledger' = [ledger EXCEPT ![key[p]].state = "started",
                                         ![key[p]].command = command[p]]
             /\ Goto(p, "begin")
    <3>1. /\ ledger'[key[p]].state = "started"
          /\ \A k \in Keys : k # key[p] => ledger'[k] = ledger[k]
      BY <2>1, <2>2, <1>0 DEF Entries
    <3>2. at[p] = "note" /\ at'[p] = "begin" /\ workspace' = workspace
      BY <1>0, <1>4, <2>2 DEF Note, Goto
    <3> QED
      BY <1>0, <1>1, <3>1, <3>2 DEF Aside, Onwards, Places, Made, Before
  <2>3. CASE ledger' = ledger /\ End(p, "error")
    <3>1. at'[p] = "idle" /\ UNCHANGED <<ledger, workspace>>
      BY <1>0, <1>4, <2>3 DEF Note, End
    <3> QED
      BY <1>0, <1>1, <3>1, RetreatsAside DEF Made, Before
  <2> QED
    BY <1>4, <2>2, <2>3 DEF Note
<1>5. CASE Answer(p) \/ Begin(p) \/ Kill(p)
  <2>1. UNCHANGED <<ledger, workspace>>
    BY <1>5 DEF Answer, AnswerFor, Begin, Kill, files
  <2>2. /\ at'[p] \notin Made
        /\ at'[p] \in Before => at[p] = "begin"
    BY <1>0, <1>5 DEF Answer, AnswerFor, Begin, Kill, Goto, End, Made, Before
  <2> QED
    BY <1>0, <1>1, <2>1, <2>2, RetreatsAside DEF Before
<1>6. CASE Validate(p) \/ Restore(p) \/ Inspect(p)
  <2>1. UNCHANGED <<ledger, workspace>>
    BY <1>6 DEF Validate, Restore, Inspect, InspectFor, files
  <2>2. at'[p] \notin Before
    BY <1>0, <1>6 DEF Validate, Restore, Inspect, InspectFor, Goto, End, Made, Before
  <2> QED
    BY <1>0, <1>1, <2>1, <2>2, RetreatsAside DEF Before
<1>7. CASE Complete(p)
  <2>1. at'[p] = "idle" /\ workspace' = workspace
    BY <1>0, <1>7 DEF Complete, End
  <2>2. \A k \in Keys : \/ ledger'[k] = ledger[k]
                         \/ ledger'[k].state = "completed"
    BY <1>0, <1>7 DEF Complete
  <2> QED
    BY <1>0, <1>1, <2>1, <2>2 DEF Aside, Onwards, Places, Made, Before
<1>8. CASE Target(p) \/ Open(p) \/ Build(p) \/ Agent(p)
  <2>1. UNCHANGED <<ledger, workspace>>
    BY <1>8 DEF Target, Open, Build, Agent, Silent, files
  <2>2. /\ at'[p] \in Made => at[p] = "open"
        /\ at'[p] \in Before => at[p] \in {"target", "open"}
    BY <1>0, <1>8 DEF Target, Open, Build, Agent, Goto, End, Made, Before
  <2> QED
    BY <1>0, <1>1, <2>1, <2>2, RetreatsAside DEF Made, Before
<1> QED
  BY <1>2, <1>3, <1>4, <1>5, <1>6, <1>7, <1>8

\* Who is about to make, or to record, a candidate is alone with its key, and
\* whoever else has the directory knows it contested.
LEMMA KeyIsMine ==
    ASSUME TypeInv, LedgerInv, NEW p \in Callers, at[p] \in Before
    PROVE  /\ key[p] \in Keys /\ ledger[key[p]].state # "free" /\ Mine(p) \in Candidates
           /\ Contested(key[p]) => Shared(Mine(p))
           /\ \A q \in Callers : q # p /\ at[q] \in Before /\ Mine(q) = Mine(p) =>
                 Contested(key[q])
           /\ \A k \in Keys : k # key[p] /\ CandidateOf[k] = Mine(p) => Contested(k)
<1>1. \A q \in Callers : at[q] \in Before => key[q] \in Keys /\ Holds(q, key[q])
  BY DEF TypeInv, KeyOK, Keyed, Before, Made, Holds, Working
<1>2. ledger[key[p]].state # "free"
  BY <1>1 DEF LedgerInv, HeldEntries, Holds, Working, Before, Made
<1>3. Mine(p) \in Candidates /\ CandidateOf[key[p]] = Mine(p)
  BY <1>1 DEF Mine
<1>4. \A q \in Callers : q # p /\ at[q] \in Before => key[q] # key[p]
  BY <1>1 DEF LedgerInv, OneHolder
<1>5. Contested(key[p]) => Shared(Mine(p))
  BY <1>1, <1>2, <1>3 DEF Contested, Shared
<1>6. \A k \in Keys : k # key[p] /\ CandidateOf[k] = Mine(p) => Contested(k)
  BY <1>1, <1>2, <1>3 DEF Contested
<1> QED
  BY <1>1, <1>2, <1>3, <1>4, <1>5, <1>6 DEF Mine

LEMMA MakingKeepsCandidate ==
    ASSUME TypeInv, LedgerInv, CandidateInv, NEW p \in Callers,
           Clone(p) \/ Checkout(p)
    PROVE  CandidateInv'
<1>0. /\ Places(p) /\ at[p] \in Before \ Made
      /\ UNCHANGED <<ledger, recorded, key>>
      /\ candidate \in [Candidates -> {"absent", "partial", "whole"}]
      /\ recorded \in Workspaces /\ at \in [Callers -> Steps]
      /\ workspace \in [Callers -> Workspaces]
  BY CommandPlaces DEF Command, Clone, Checkout, CandidateStep, TypeInv, TypeOK,
     Before, Made, arguments
<1>1. /\ key[p] \in Keys /\ Mine(p) \in Candidates
      /\ Contested(key[p]) => Shared(Mine(p))
      /\ \A q \in Callers : q # p /\ at[q] \in Before /\ Mine(q) = Mine(p) => Contested(key[q])
      /\ \A q \in Callers : at[q] \in Before => Mine(q) \in Candidates
  BY <1>0, KeyIsMine
<1>2. \A c \in Candidates : c # Mine(p) => candidate'[c] = candidate[c]
  BY <1>0, <1>1 DEF Clone, Checkout, CheckedOut, Removed, Put
<1>3. \/ at'[p] \notin Made /\ workspace' = workspace
      \/ /\ candidate'[Mine(p)] = "whole"
         /\ workspace' = [workspace EXCEPT ![p] = Mine(p)]
  BY <1>0, <1>1 DEF Clone, Checkout, CheckedOut, Put, Goto, End, Made
<1>4. /\ \A q \in Callers : Mine(q)' = Mine(q) /\ Contested(key[q])' = Contested(key[q])
      /\ \A k \in Keys : Contested(k)' = Contested(k)
      /\ \A c \in Candidates : Shared(c)' = Shared(c)
  BY <1>0 DEF Mine, Contested, Shared
<1>5. MadeCandidates'
  <2>1. ASSUME NEW q \in Callers, at'[q] \in Made, q # p
        PROVE  /\ workspace'[q] = Mine(q)
               /\ candidate'[Mine(q)] = "whole" \/ Contested(key[q])
    <3>1. at[q] \in Made /\ at[q] \in Before
      BY <1>0, <2>1 DEF Places, Before
    <3>2. workspace'[q] = workspace[q]
      BY <1>0, <1>3, <2>1
    <3> QED
      BY <1>1, <1>2, <2>1, <3>1, <3>2 DEF CandidateInv, MadeCandidates
  <2>2. ASSUME at'[p] \in Made
        PROVE  workspace'[p] = Mine(p) /\ candidate'[Mine(p)] = "whole"
    BY <1>0, <1>3, <2>2
  <2> QED
    BY <1>0, <1>4, <2>1, <2>2 DEF MadeCandidates, Contested
<1>6. UnrecordedYet'
  BY <1>0, <1>4 DEF CandidateInv, UnrecordedYet, Places, Contested, Mine
<1>7. ActiveCandidateIsWhole'
  <2>1. recorded # Mine(p) \/ Shared(Mine(p))
    BY <1>0, <1>1 DEF CandidateInv, UnrecordedYet
  <2> QED
    BY <1>0, <1>1, <1>2, <1>4, <2>1 DEF CandidateInv, ActiveCandidateIsWhole, Workspaces
<1> QED
  BY <1>5, <1>6, <1>7 DEF CandidateInv

LEMMA RecordingKeepsCandidate ==
    ASSUME TypeInv, LedgerInv, CandidateInv, NEW p \in Callers,
           Truncate(p) \/ Write(p)
    PROVE  CandidateInv'
<1>0. /\ Places(p) /\ at[p] \in Made /\ at[p] \in Before
      /\ UNCHANGED <<ledger, candidate, key, workspace>> /\ at \in [Callers -> Steps]
      /\ recorded \in Workspaces
  BY CommandPlaces DEF Command, Truncate, Write, RecordStep, TypeInv, TypeOK, Before, Made,
     arguments
<1>1. workspace[p] = Mine(p) /\ (candidate[Mine(p)] = "whole" \/ Contested(key[p]))
  BY <1>0 DEF CandidateInv, MadeCandidates
<1>2. /\ key[p] \in Keys
      /\ Contested(key[p]) => Shared(Mine(p))
      /\ \A q \in Callers : q # p /\ at[q] \in Before /\ Mine(q) = Mine(p) => Contested(key[q])
      /\ \A k \in Keys : k # key[p] /\ CandidateOf[k] = Mine(p) => Contested(k)
      /\ \A q \in Callers : at[q] \in Before => Mine(q) \in Candidates
  BY <1>0, KeyIsMine
<1>3. \/ recorded' = recorded
      \/ recorded' = NoCandidate
      \/ recorded' = Mine(p) /\ at'[p] \notin Before
  BY <1>0, <1>1 DEF Truncate, Write, Goto, Before, Made
<1>4. /\ \A q \in Callers : Mine(q)' = Mine(q) /\ Contested(key[q])' = Contested(key[q])
      /\ \A k \in Keys : Contested(k)' = Contested(k)
      /\ \A c \in Candidates : Shared(c)' = Shared(c)
  BY <1>0 DEF Mine, Contested, Shared
<1>5. ledger[key[p]].state = "started"
  BY <1>0, <1>2 DEF LedgerInv, HeldEntries, Holds, Working, Made
<1>6. MadeCandidates'
  <2>1. at'[p] \in Made => at[p] \in Made
    BY <1>0
  <2> QED
    BY <1>0, <1>4, <2>1 DEF CandidateInv, MadeCandidates, Places, Contested
<1>7. at'[p] \in Before => at[p] \in Before
  BY <1>0
<1>8. UnrecordedYet'
  <2>1. CASE recorded' = recorded
    BY <1>0, <1>4, <1>7, <2>1 DEF CandidateInv, UnrecordedYet, Places, Contested, Mine
  <2>2. CASE recorded' = NoCandidate
    BY <1>0, <1>2, <1>4, <1>7, <2>2 DEF UnrecordedYet, Places
  <2>3. CASE recorded' = Mine(p) /\ at'[p] \notin Before
    <3>1. ASSUME NEW q \in Callers, at'[q] \in Before
          PROVE  recorded' # Mine(q)' \/ Contested(key[q])'
      <4>1. q # p /\ at[q] \in Before
        BY <1>0, <2>3, <3>1 DEF Places
      <4> QED
        BY <1>0, <1>2, <1>4, <2>3, <4>1 DEF Contested
    <3>2. ASSUME NEW k \in Keys, ledger'[k].state \in {"free", "claimed"}
          PROVE  recorded' # CandidateOf[k] \/ Contested(k)'
      BY <1>0, <1>2, <1>4, <1>5, <2>3, <3>2
    <3> QED
      BY <3>1, <3>2 DEF UnrecordedYet
  <2> QED
    BY <1>3, <2>1, <2>2, <2>3
<1>9. ActiveCandidateIsWhole'
  <2>1. CASE recorded' = recorded
    BY <1>0, <1>4, <2>1 DEF CandidateInv, ActiveCandidateIsWhole, Workspaces
  <2>2. CASE recorded' = NoCandidate
    BY <2>2 DEF ActiveCandidateIsWhole
  <2>3. CASE recorded' = Mine(p)
    BY <1>0, <1>1, <1>2, <1>4, <2>3 DEF ActiveCandidateIsWhole
  <2> QED
    BY <1>3, <2>1, <2>2, <2>3
<1> QED
  BY <1>6, <1>8, <1>9 DEF CandidateInv

LEMMA CandidateInit == Init => CandidateInv
BY DEF Init, CandidateInv, MadeCandidates, UnrecordedYet, ActiveCandidateIsWhole, Before, Made

LEMMA CandidateStepKept ==
    TypeInv /\ LedgerInv /\ CandidateInv /\ [Next]_vars => CandidateInv'
<1> SUFFICES ASSUME TypeInv, LedgerInv, CandidateInv, [Next]_vars PROVE CandidateInv'
  OBVIOUS
<1>1. ASSUME NEW p \in Callers, NEW c \in Commands, NEW k \in Keys \cup {NoKey}, Start(p, c, k)
      PROVE  CandidateInv'
  <2>1. /\ UNCHANGED <<ledger, recorded, candidate, workspace>>
        /\ at'[p] = "resolve"
        /\ \A q \in Callers : q # p => at'[q] = at[q] /\ key'[q] = key[q]
    BY <1>1 DEF Start, Goto, files, TypeInv, TypeOK
  <2>2. \A q \in Callers : at'[q] \in Before => at'[q] = at[q] /\ Mine(q)' = Mine(q)
    BY <2>1 DEF Before, Made, Mine
  <2>3. /\ \A j \in Keys : Contested(j)' = Contested(j)
        /\ \A name \in Workspaces : Shared(name)' = Shared(name)
        /\ \A q \in Callers : at'[q] \in Before => Contested(key[q])' = Contested(key[q])
        /\ recorded \in Workspaces
    BY <2>1 DEF Contested, Shared, Before, Made, TypeInv, TypeOK
  <2>4. MadeCandidates'
    BY <2>1, <2>2, <2>3 DEF CandidateInv, MadeCandidates, Before
  <2>5. UnrecordedYet'
    BY <2>1, <2>2, <2>3 DEF CandidateInv, UnrecordedYet
  <2> QED
    BY <2>1, <2>3, <2>4, <2>5 DEF CandidateInv, ActiveCandidateIsWhole
<1>2. ASSUME NEW p \in Callers, Command(p) \/ Kill(p)
      PROVE  CandidateInv'
  BY <1>2, AsideCommands, AsideKeepsCandidate, MakingKeepsCandidate, RecordingKeepsCandidate
     DEF Command
<1>3. CASE UNCHANGED vars
  BY <1>3 DEF vars, files, arguments, CandidateInv, MadeCandidates, UnrecordedYet,
     ActiveCandidateIsWhole, Mine, Contested, Shared
<1> QED
  BY <1>1, <1>2, <1>3 DEF Next

\* The candidate state.json names is there and complete, whoever creates, fails
\* and is killed meanwhile, but where two keys that were sent share its directory:
\* a clone refused because of it removes it, whoever made it.
THEOREM ActiveCandidateStaysWhole == Spec => []ActiveCandidateIsWhole
<1>1. CandidateInv => ActiveCandidateIsWhole
  BY DEF CandidateInv
<1> QED
  BY TypeInit, TypeStep, LedgerInit, LedgerStep, CandidateInit, CandidateStepKept, <1>1, PTL
  DEF Spec

-----------------------------------------------------------------------------
(* The ledger as one account per key                                        *)

\* Who works under a key works for the command its entry names.
HeldCommands ==
    \A p \in Callers, k \in Keys :
        Holds(p, k) /\ at[p] # "note" => ledger[k].command = command[p]

LEMMA SameArguments ==
    ASSUME NEW p \in Callers, Command(p) \/ Kill(p)
    PROVE  UNCHANGED <<command, key>>
BY DEF Command, Kill, Resolve, Claim, ClaimIf, Note, Answer, AnswerFor, Begin, Validate,
   Complete, Restore, Inspect, InspectFor, Target, Clone, Checkout, CandidateStep, Open,
   Truncate, Write, RecordStep, Build, Agent, Silent, arguments

LEMMA CommandsHeld == TypeInv /\ LedgerInv /\ HeldCommands /\ [Next]_vars => HeldCommands'
<1> SUFFICES ASSUME TypeInv, LedgerInv, HeldCommands, [Next]_vars PROVE HeldCommands'
  OBVIOUS
<1>1. ASSUME NEW p \in Callers, NEW c \in Commands, NEW k \in Keys \cup {NoKey}, Start(p, c, k)
      PROVE  HeldCommands'
  <2>1. /\ ledger' = ledger /\ at'[p] = "resolve"
        /\ \A q \in Callers : q # p => /\ at'[q] = at[q] /\ key'[q] = key[q]
                                       /\ command'[q] = command[q]
    BY <1>1 DEF Start, Goto, files, TypeInv, TypeOK
  <2> QED
    BY <2>1 DEF HeldCommands, Holds, Working
<1>2. ASSUME NEW p \in Callers, Command(p) \/ Kill(p)
      PROVE  HeldCommands'
  <2>0. /\ UNCHANGED <<command, key>> /\ Places(p)
        /\ at \in [Callers -> Steps] /\ ledger \in [Keys -> Entries]
    BY <1>2, SameArguments, CommandPlaces DEF TypeInv, TypeOK
  <2>1. CASE Quiet(p)
    BY <2>0, <2>1 DEF Quiet, HeldCommands, Holds, Working
  <2>2. CASE Claim(p)
    <3>1. key[p] \in Keys
      BY <2>2 DEF Claim, ClaimIf, TypeInv, KeyOK, Keyed
    <3>2. \A k \in Keys : ledger'[k].command = ledger[k].command
      BY <2>0, <2>2, <3>1 DEF Claim, ClaimIf, Entries
    <3>3. at'[p] \in {"note", "answer"}
      BY <2>0, <2>2 DEF Claim, ClaimIf, Goto
    <3> QED
      BY <2>0, <3>2, <3>3 DEF HeldCommands, Holds, Working, Places
  <2>3. CASE Note(p)
    <3>1. at[p] = "note" /\ key[p] \in Keys
      BY <2>3 DEF Note, TypeInv, KeyOK, Keyed
    <3>2. Holds(p, key[p])
      BY <3>1 DEF Holds
    <3>3. \A q \in Callers : q # p => ~Holds(q, key[p])
      BY <3>1, <3>2 DEF LedgerInv, OneHolder
    <3>4. CASE ledger' = ledger /\ at'[p] = "idle"
      BY <2>0, <3>4 DEF HeldCommands, Holds, Working, Places
    <3>5. CASE /\ ledger'[key[p]].command = command[p]
               /\ \A k \in Keys : k # key[p] => ledger'[k] = ledger[k]
      BY <2>0, <3>1, <3>3, <3>5 DEF HeldCommands, Holds, Places
    <3> QED
      BY <2>0, <2>3, <3>1, <3>4, <3>5 DEF Note, End, Entries
  <2>4. CASE Answer(p)
    BY <2>0, <2>4 DEF Answer, AnswerFor, End, files, HeldCommands, Holds, Working, Places
  <2>5. CASE Complete(p)
    <3>1. at[p] = "complete" /\ at'[p] = "idle"
      BY <2>0, <2>5 DEF Complete, End
    <3>2. \A q \in Callers, k \in Keys :
             Holds(q, k)' => Holds(q, k) /\ ledger'[k] = ledger[k]
      <4>1. Holds(p, key[p])
        BY <3>1 DEF Holds, Working
      <4>2. \A k \in Keys : k # key[p] => ledger'[k] = ledger[k]
        BY <2>0, <2>5 DEF Complete
      <4> QED
        BY <2>0, <3>1, <4>1, <4>2 DEF Holds, Working, Places, LedgerInv, OneHolder
    <3> QED
      BY <2>0, <3>1, <3>2 DEF HeldCommands, Holds, Working, Places
  <2> QED
    BY <1>2, <2>1, <2>2, <2>3, <2>4, <2>5, QuietCommands DEF Command
<1>3. CASE UNCHANGED vars
  BY <1>3 DEF vars, files, arguments, HeldCommands, Holds
<1> QED
  BY <1>1, <1>2, <1>3 DEF Next

\* What the sender of a key may tell apart.
account == <<Taken, runs, Settled, answers>>

LEMMA SameLedgerSameAccount ==
    ASSUME UNCHANGED <<ledger, runs, answers>>
    PROVE  UNCHANGED account
BY DEF account, Taken, Settled

LEMMA ClaimHidden ==
    ASSUME TypeInv, NEW p \in Callers, Claim(p)
    PROVE  UNCHANGED account
<1>1. key[p] \in Keys /\ ledger \in [Keys -> Entries] /\ UNCHANGED <<runs, answers>>
  BY DEF Claim, ClaimIf, TypeInv, TypeOK, KeyOK, Keyed, ghosts
<1>2. CASE ledger' = ledger
  BY <1>1, <1>2, SameLedgerSameAccount
<1>3. CASE /\ ledger[key[p]].state = "free"
           /\ ledger' = [ledger EXCEPT ![key[p]].state = "claimed"]
  <2>1. /\ ledger'[key[p]].state = "claimed"
        /\ \A k \in Keys : k # key[p] => ledger'[k] = ledger[k]
    BY <1>1, <1>3 DEF Entries
  <2>2. Taken' = Taken
    BY <1>3, <2>1 DEF Taken
  <2>3. Settled' = Settled
    BY <1>3, <2>1 DEF Settled
  <2> QED
    BY <1>1, <2>2, <2>3 DEF account
<1> QED
  BY <1>2, <1>3 DEF Claim, ClaimIf

LEMMA NoteTakes ==
    ASSUME TypeInv, LedgerInv, NEW p \in Callers, Note(p)
    PROVE  [Idempotent!AccountNext]_account
<1>1. /\ key[p] \in Keys /\ command[p] \in Commands
      /\ ledger \in [Keys -> Entries] /\ answers' = answers
  BY DEF Note, TypeInv, TypeOK, KeyOK, Keyed
<1>2. CASE UNCHANGED <<ledger, runs>>
  BY <1>1, <1>2, SameLedgerSameAccount
<1>3. CASE /\ ledger' = [ledger EXCEPT ![key[p]].state = "started",
                                       ![key[p]].command = command[p]]
           /\ runs' = [runs EXCEPT ![key[p]] = @ + 1]
  <2>1. /\ ledger'[key[p]].state = "started" /\ ledger'[key[p]].command = command[p]
        /\ \A k \in Keys : k # key[p] => ledger'[k] = ledger[k]
    BY <1>1, <1>3 DEF Entries
  <2>2. ledger[key[p]].state = "claimed"
    BY <1>1 DEF Note, LedgerInv, HeldEntries, Holds
  <2>3. Taken[key[p]] = {} /\ Taken' = [Taken EXCEPT ![key[p]] = {command[p]}]
    BY <1>1, <2>1, <2>2 DEF Taken
  <2>4. Settled' = Settled
    BY <2>1, <2>2 DEF Settled
  <2>5. runs[key[p]] = 0 /\ runs' = [runs EXCEPT ![key[p]] = 1]
    <3>1. runs[key[p]] = 0
      BY <1>1, <2>2 DEF LedgerInv, RunsCounted
    <3> QED
      BY <1>3, <3>1
  <2>6. Idempotent!Take(key[p], command[p])
    BY <1>1, <2>3, <2>4, <2>5 DEF Idempotent!Take
  <2> QED
    BY <1>1, <2>6 DEF Idempotent!AccountNext
<1> QED
  BY <1>2, <1>3 DEF Note

LEMMA OneSaid ==
    ASSUME NEW k, NEW c, NEW r
    PROVE  Idempotent!Says(k, {c}, {r}) = {[key |-> k, command |-> c, result |-> r]}
BY DEF Idempotent!Says

LEMMA AnswerTells ==
    ASSUME TypeInv, NEW p \in Callers, Answer(p)
    PROVE  [Idempotent!AccountNext]_account
<1>1. key[p] \in Keys /\ ledger \in [Keys -> Entries] /\ UNCHANGED <<ledger, runs>>
  BY DEF Answer, AnswerFor, TypeInv, TypeOK, KeyOK, Keyed, files
<1>2. CASE answers' = answers
  BY <1>1, <1>2, SameLedgerSameAccount
<1>3. CASE /\ ledger[key[p]].state = "completed" /\ ledger[key[p]].command = command[p]
           /\ answers' = Answers(p, ledger[key[p]])
  <2>1. Taken[key[p]] = {command[p]} /\ Settled[key[p]] = {ledger[key[p]].result}
    BY <1>1, <1>3 DEF Taken, Settled
  <2>2. Answers(p, ledger[key[p]]) =
           answers \cup Idempotent!Says(key[p], Taken[key[p]], Settled[key[p]])
    <3>1. Idempotent!Says(key[p], {command[p]}, {ledger[key[p]].result}) =
             {[key |-> key[p], command |-> command[p], result |-> ledger[key[p]].result]}
      BY OneSaid, Zenon
    <3> QED
      BY <2>1, <3>1, Zenon DEF Answers
  <2>3. Taken' = Taken /\ Settled' = Settled
    BY <1>1 DEF Taken, Settled
  <2>4. Idempotent!Tell(key[p])
    BY <1>1, <1>3, <2>2, <2>3 DEF Idempotent!Tell
  <2> QED
    BY <1>1, <2>4 DEF Idempotent!AccountNext
<1> QED
  BY <1>2, <1>3 DEF Answer, AnswerFor

LEMMA CompleteSettles ==
    ASSUME TypeInv, LedgerInv, HeldCommands, NEW p \in Callers, Complete(p)
    PROVE  [Idempotent!AccountNext]_account
<1>1. ledger \in [Keys -> Entries] /\ result[p] \in Results /\ runs' = runs
  BY DEF TypeInv, TypeOK, Complete, ghosts
<1>2. CASE UNCHANGED <<ledger, answers>>
  BY <1>1, <1>2, SameLedgerSameAccount
<1>3. CASE /\ key[p] # NoKey
           /\ ledger' = [ledger EXCEPT ![key[p]] =
                 [state |-> "completed", command |-> command[p], result |-> result[p]]]
           /\ answers' = Answers(p, ledger'[key[p]])
  <2>1. key[p] \in Keys
    BY <1>3 DEF TypeInv, TypeOK
  <2>2. /\ ledger'[key[p]] =
              [state |-> "completed", command |-> command[p], result |-> result[p]]
        /\ \A k \in Keys : k # key[p] => ledger'[k] = ledger[k]
    BY <1>1, <1>3, <2>1
  <2>3. ledger[key[p]].state = "started" /\ ledger[key[p]].command = command[p]
    BY <2>1 DEF Complete, Holds, Working, LedgerInv, HeldEntries, HeldCommands
  <2>4. Taken[key[p]] = {command[p]} /\ Taken' = Taken
    BY <2>1, <2>2, <2>3 DEF Taken
  <2>5. Settled[key[p]] = {} /\ Settled' = [Settled EXCEPT ![key[p]] = {result[p]}]
    <3>1. Settled[key[p]] = {}
      BY <2>1, <2>3 DEF Settled
    <3>2. \A k \in Keys : IF k = key[p]
             THEN ledger'[k].state = "completed" /\ ledger'[k].result = result[p]
             ELSE ledger'[k] = ledger[k]
      BY <2>2
    <3> QED
      BY <2>1, <3>1, <3>2 DEF Settled
  <2>6. Answers(p, ledger'[key[p]]) =
           answers \cup Idempotent!Says(key[p], Taken[key[p]], {result[p]})
    <3>1. Idempotent!Says(key[p], {command[p]}, {result[p]}) =
             {[key |-> key[p], command |-> command[p], result |-> result[p]]}
      BY OneSaid, Zenon
    <3>2. ledger'[key[p]].result = result[p]
      BY <2>2
    <3> QED
      BY <3>2, <2>4, <3>1, Zenon DEF Answers
  <2>7. Idempotent!Settle(key[p], result[p])
    BY <1>1, <1>3, <2>4, <2>5, <2>6 DEF Idempotent!Settle
  <2> QED
    BY <1>1, <2>1, <2>7 DEF Idempotent!AccountNext
<1> QED
  BY <1>2, <1>3 DEF Complete


LEMMA StepKeepsAccount ==
    TypeInv /\ LedgerInv /\ HeldCommands /\ [Next]_vars => [Idempotent!AccountNext]_account
<1> SUFFICES ASSUME TypeInv, LedgerInv, HeldCommands, [Next]_vars
             PROVE  [Idempotent!AccountNext]_account
  OBVIOUS
<1>1. ASSUME NEW p \in Callers, NEW c \in Commands, NEW k \in Keys \cup {NoKey}, Start(p, c, k)
      PROVE  UNCHANGED account
  BY <1>1, SameLedgerSameAccount DEF Start, files, ghosts
<1>2. ASSUME NEW p \in Callers, Command(p) \/ Kill(p)
      PROVE  [Idempotent!AccountNext]_account
  <2>1. CASE Quiet(p)
    BY <2>1, SameLedgerSameAccount DEF Quiet
  <2> QED
    BY <1>2, <2>1, QuietCommands, ClaimHidden, NoteTakes, AnswerTells, CompleteSettles
       DEF Command
<1>3. CASE UNCHANGED vars
  BY <1>3, SameLedgerSameAccount DEF vars, files, ghosts
<1> QED
  BY <1>1, <1>2, <1>3 DEF Next

\* Whatever the processes do and wherever they are killed, the ledger is one
\* account per key: taken for one command, settled at most once, and told to
\* everybody alike.
THEOREM LedgerIsIdempotent == Spec => ImplementsLedger
<1>1. Init => Idempotent!AccountInit
  BY DEF Init, NoEntry, Taken, Settled, Idempotent!AccountInit
<1>2. Init => HeldCommands
  BY DEF Init, HeldCommands, Holds, Working
<1>3. [Idempotent!AccountNext]_account <=> [Idempotent!AccountNext]_<<Taken, runs, Settled, answers>>
  BY DEF account
<1> QED
  BY TypeInit, TypeStep, LedgerInit, LedgerStep, CommandsHeld, StepKeepsAccount,
     <1>1, <1>2, <1>3, PTL DEF Spec, ImplementsLedger, Idempotent!AccountSpec

=============================================================================
