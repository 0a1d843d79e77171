-------------------------- MODULE RepairAgent_proofs --------------------------
(***************************************************************************)
(* Proofs about RepairAgent and its ContextProjection, for any limits,     *)
(* prices, retries and lengths of outputs.                                 *)
(***************************************************************************)
EXTENDS RepairAgent, FiniteSetTheorems, WellFoundedInduction, TLAPS

-----------------------------------------------------------------------------
(* Least and greatest indices *)

Less == {ss \in Nat \X Nat : ss[1] < ss[2]}

LEMMA LessIsWellFounded == IsWellFoundedOn(Less, Nat)
  <1>1. Less = OpToRel(<, Nat)
    BY DEF Less, OpToRel
  <1>2. QED
    BY <1>1, NatLessThanWellFounded

LEMMA LeastExists ==
  ASSUME NEW S, S \subseteq Nat, S # {}
  PROVE  \E x \in S : \A y \in S : x <= y
  <1>1. PICK x \in S : \A y \in S : ~ (<<y, x>> \in Less)
    BY LessIsWellFounded, WFMin
  <1>2. \A a, b \in Nat : a < b => <<a, b>> \in Less
    BY DEF Less
  <1>3. ASSUME NEW y \in S PROVE x <= y
    <2>1. x \in Nat /\ y \in Nat
      OBVIOUS
    <2>2. ~ (y < x)
      BY <1>1, <1>2, <2>1
    <2>3. QED
      BY <2>1, <2>2
  <1>4. QED
    BY <1>3

LEMMA GreatestExists ==
  ASSUME NEW n \in Nat, NEW S, S \subseteq 0..n, S # {}
  PROVE  Max(S) \in S /\ \A y \in S : Max(S) >= y
  <1> DEFINE T == {n - y : y \in S}
  <1>1. T \subseteq Nat /\ T # {}
    <2>1. \A y \in S : y \in 0..n
      OBVIOUS
    <2>2. \A y \in S : n - y \in Nat
      BY <2>1
    <2>3. QED
      BY <2>2
  <1>2. PICK x \in T : \A y \in T : x <= y
    BY <1>1, LeastExists
  <1>3. PICK m \in S : x = n - m
    BY <1>2
  <1>4. \A y \in S : m >= y
    BY <1>2, <1>3
  <1>5. QED
    BY <1>4 DEF Max

-----------------------------------------------------------------------------
(* The loop's variables *)

Statuses == {"exception", "Submitted", "LimitsExceeded", "TimeExceeded", "RepeatedFormatError"}

Prompts == [role : {"system", "user"}]
Exits == [role : {"exit"}, status : Statuses]
CallsOf(tool) == [role : {"assistant"}, id : Nat, tool : {tool}, about : About(tool)]
Calls == UNION {CallsOf(tool) : tool \in Tools}
Outputs == UNION {Lengths[tool] : tool \in Tools}
Results == [role : {"tool"}, id : Nat, ok : BOOLEAN, stamp : Nat \X Nat,
            chars : Outputs, whole : {TRUE}]

Messages == Prompts \cup Exits \cup Calls \cup Results

Sessions == [revision : Nat, epoch : Nat, changed : BOOLEAN,
             results : [Scopes -> {"none", "passed", "failed"}]]

Running == {"query", "model", "execute"}

TypeInv ==
    /\ config \in Configs
    /\ at \in Running \cup {"ended", "raised"}
    /\ messages \in Seq(Messages)
    /\ nCalls \in Nat /\ cost \in Nat /\ formatErrors \in Nat /\ attempt \in Nat
    /\ billed \in [calls : Nat, cost : Nat]
    /\ session \in Sessions

\* A call that is executed is the last message; identifiers count the calls.
CallInv ==
    /\ at = "execute" => Len(messages) > 0 /\ messages[Len(messages)] \in Calls
    /\ at \in {"model", "execute"} => nCalls > 0

LEMMA PricesAreNat == Prices \subseteq Nat
  BY AgentAssumption

LEMMA AnExit == \A status \in Statuses : Exit(status) \in Messages
  BY DEF Exit, Messages, Exits

LEMMA ARejection == Rejection \in Messages
  BY DEF Rejection, Messages, Prompts

LEMMA ACall ==
  ASSUME NEW id \in Nat, NEW tool \in Tools, NEW about \in About(tool)
  PROVE  Call(id, tool, about) \in Calls
  <1>1. Call(id, tool, about) \in CallsOf(tool)
    BY DEF Call, CallsOf
  <1>2. QED
    BY <1>1 DEF Calls

LEMMA AResult ==
  ASSUME NEW id \in Nat, NEW ok \in BOOLEAN, NEW stamp \in Nat \X Nat,
         NEW tool \in Tools, NEW chars \in Lengths[tool]
  PROVE  Result(id, ok, stamp, chars) \in Results
  <1>1. chars \in Outputs
    BY DEF Outputs
  <1>2. QED
    BY <1>1 DEF Result, Results

LEMMA CallFields ==
  ASSUME NEW c \in Calls
  PROVE  c.role = "assistant" /\ c.id \in Nat /\ c.tool \in Tools /\ c.about \in About(c.tool)
  <1>1. PICK tool \in Tools : c \in CallsOf(tool)
    BY DEF Calls
  <1>2. QED
    BY <1>1 DEF CallsOf

LEMMA Appending ==
  ASSUME NEW S, NEW s \in Seq(S), NEW m \in S
  PROVE  /\ Append(s, m) \in Seq(S)
         /\ Len(Append(s, m)) = Len(s) + 1
         /\ Append(s, m)[Len(s) + 1] = m
         /\ \A i \in 1..Len(s) : Append(s, m)[i] = s[i]
  OBVIOUS

LEMMA SessionEffects ==
  ASSUME session \in Sessions
  PROVE  /\ \A changed \in BOOLEAN : Revised(changed) \in Sessions
         /\ Reopened \in Sessions
         /\ \A scope \in Scopes, r \in {"passed", "failed"} :
               Judged(scope, r) \in Sessions
         /\ Stamp \in Nat \X Nat
  <1>1. NoResults \in [Scopes -> {"none", "passed", "failed"}]
    BY DEF NoResults
  <1>2. session.revision + 1 \in Nat /\ session.epoch + 1 \in Nat
    BY DEF Sessions
  <1>3. \A changed \in BOOLEAN : Revised(changed) \in Sessions
    BY <1>1, <1>2 DEF Sessions, Revised, Session
  <1>4. Reopened \in Sessions
    BY <1>1, <1>2 DEF Sessions, Reopened, Session
  <1>5. \A scope \in Scopes, r \in {"passed", "failed"} :
               Judged(scope, r) \in Sessions
    BY DEF Sessions, Judged, Session
  <1>6. Stamp \in Nat \X Nat
    BY DEF Sessions, Stamp
  <1>7. QED
    BY <1>3, <1>4, <1>5, <1>6

\* What a tool call does: the session after it and the result.
LEMMA AftersAreSessions ==
  ASSUME session \in Sessions, NEW changed \in BOOLEAN, NEW after \in Afters(changed)
  PROVE  after \in Sessions
  <1>1. CASE after \in {session, Revised(changed), Reopened}
    BY <1>1, SessionEffects
  <1>2. CASE after \in {Judged(scope, r) : scope \in Scopes, r \in {"passed", "failed"}}
    <2>1. PICK scope \in Scopes, r \in {"passed", "failed"} :
                   after = Judged(scope, r)
      BY <1>2
    <2>2. QED
      BY <2>1, SessionEffects
  <1>3. QED
    BY <1>1, <1>2 DEF Afters

LEMMA ToolCalls ==
  ASSUME TypeInv, CallInv, Execute, NEW call, call = messages[Len(messages)]
  PROVE  \/ \E ok \in BOOLEAN, after \in Sessions, chars \in Outputs :
               /\ Returns(call, ok, after, chars)
               /\ Result(call.id, ok, <<after.revision, after.epoch>>, chars) \in Results
         \/ /\ Ready
            /\ EndWith(<<Exit("Submitted")>>)
            /\ UNCHANGED <<session, formatErrors>>
         \/ Raise /\ UNCHANGED <<session, formatErrors>>
  <1>1. call \in Calls /\ session \in Sessions
    BY DEF TypeInv, CallInv, Execute
  <1>2. call.tool \in Tools /\ call.id \in Nat
    BY <1>1, CallFields
  <1>3. ASSUME NEW ok \in BOOLEAN, NEW changed \in BOOLEAN, NEW after \in Afters(changed),
               NEW chars \in Lengths[call.tool]
        PROVE  /\ after \in Sessions /\ chars \in Outputs
               /\ Result(call.id, ok, <<after.revision, after.epoch>>, chars) \in Results
    <2>1. after \in Sessions
      BY <1>1, AftersAreSessions
    <2>2. <<after.revision, after.epoch>> \in Nat \X Nat
      BY <2>1 DEF Sessions
    <2>3. chars \in Outputs
      BY <1>2 DEF Outputs
    <2>4. QED
      BY <1>2, <2>1, <2>2, <2>3, AResult
  <1>4. \/ \E ok \in BOOLEAN, changed \in BOOLEAN : \E after \in Afters(changed) :
              \E chars \in Lengths[call.tool] : Returns(call, ok, after, chars)
        \/ /\ Ready
           /\ EndWith(<<Exit("Submitted")>>)
           /\ UNCHANGED <<session, formatErrors>>
        \/ Raise /\ UNCHANGED <<session, formatErrors>>
    BY DEF Execute
  <1>5. ASSUME NEW ok \in BOOLEAN, NEW changed \in BOOLEAN, NEW after \in Afters(changed),
               NEW chars \in Lengths[call.tool], Returns(call, ok, after, chars)
        PROVE  \E o \in BOOLEAN, a \in Sessions, c \in Outputs :
                  /\ Returns(call, o, a, c)
                  /\ Result(call.id, o, <<a.revision, a.epoch>>, c) \in Results
    <2>1. /\ after \in Sessions /\ chars \in Outputs
          /\ Result(call.id, ok, <<after.revision, after.epoch>>, chars) \in Results
      BY <1>3
    <2> USE <2>1
    <2>2. WITNESS ok \in BOOLEAN, after \in Sessions, chars \in Outputs
    <2>3. QED
      BY <1>5, <2>1
  <1>6. QED
    BY <1>4, <1>5, Zenon

ExitStatuses ==
    /\ Exit("exception") \in Messages /\ Exit("Submitted") \in Messages
    /\ Exit("LimitsExceeded") \in Messages /\ Exit("TimeExceeded") \in Messages
    /\ Exit("RepeatedFormatError") \in Messages

LEMMA ExitsAreMessages == ExitStatuses
  BY AnExit DEF ExitStatuses, Statuses

\* What the messages are after a step that records one or two more.
LEMMA RecordsOne ==
  ASSUME messages \in Seq(Messages), NEW m \in Messages, Record(<<m>>)
  PROVE  /\ messages' \in Seq(Messages) /\ trajectory' = messages'
         /\ Len(messages') = Len(messages) + 1
         /\ messages'[Len(messages) + 1] = m
         /\ \A i \in 1..Len(messages) : messages'[i] = messages[i]
  BY DEF Record, Save

LEMMA RecordsTwo ==
  ASSUME messages \in Seq(Messages), NEW m \in Messages, NEW n \in Messages, Record(<<m, n>>)
  PROVE  /\ messages' \in Seq(Messages) /\ trajectory' = messages'
         /\ Len(messages') = Len(messages) + 2
         /\ messages'[Len(messages) + 1] = m
         /\ messages'[Len(messages) + 2] = n
         /\ \A i \in 1..Len(messages) : messages'[i] = messages[i]
  BY DEF Record, Save

LoopInv == TypeInv /\ CallInv

LEMMA InitLoop == Init => LoopInv
  <1> SUFFICES ASSUME Init PROVE LoopInv OBVIOUS
  <1>1. messages \in Seq(Messages)
    <2>1. Message("system") \in Messages /\ Message("user") \in Messages
      BY DEF Message, Messages, Prompts
    <2>2. QED
      BY <2>1 DEF Init
  <1>2. session \in Sessions
    BY DEF Init, Fresh, Session, Sessions, NoResults
  <1>3. billed \in [calls : Nat, cost : Nat]
    BY DEF Init
  <1>4. QED
    BY <1>1, <1>2, <1>3 DEF Init, LoopInv, TypeInv, CallInv, Running

\* A step that ends with the messages known, and the rest of the loop's types.
LEMMA LoopStep ==
  ASSUME messages' \in Seq(Messages), LoopInv,
         at' \in {"query", "model", "ended", "raised"},
         at' = "model" => nCalls' > 0,
         nCalls' \in Nat, cost' \in Nat, formatErrors' \in Nat, attempt' \in Nat,
         billed' \in [calls : Nat, cost : Nat],
         session' \in Sessions, UNCHANGED config
  PROVE  LoopInv'
  BY DEF LoopInv, TypeInv, CallInv, Running

LEMMA StopKeepsLoop == LoopInv /\ Stop => LoopInv'
  <1> SUFFICES ASSUME LoopInv, Stop PROVE LoopInv' OBVIOUS
  <1>1. messages' \in Seq(Messages)
    BY ExitsAreMessages, RecordsOne DEF ExitStatuses, Stop, EndWith, LoopInv, TypeInv
  <1>2. QED
    BY <1>1, LoopStep DEF Stop, EndWith, LoopInv, TypeInv

LEMMA QueryKeepsLoop == LoopInv /\ Query => LoopInv'
  <1> SUFFICES ASSUME LoopInv, Query PROVE LoopInv' OBVIOUS
  <1>1. messages' \in Seq(Messages)
    BY ExitsAreMessages, RecordsOne DEF ExitStatuses, Query, Raise, LoopInv, TypeInv
  <1>2. at' \in {"model", "raised"} /\ nCalls' = nCalls + 1
    BY DEF Query, Raise
  <1>3. QED
    BY <1>1, <1>2, LoopStep DEF Query, LoopInv, TypeInv

LEMMA FailureKeepsLoop == LoopInv /\ (AttemptFails \/ Lost) => LoopInv'
  <1> SUFFICES ASSUME LoopInv, AttemptFails \/ Lost PROVE LoopInv' OBVIOUS
  <1>1. messages' \in Seq(Messages) /\ at' \in {"model", "raised"}
    BY ExitsAreMessages, RecordsOne
       DEF ExitStatuses, AttemptFails, Lost, Raise, Bill, LoopInv, TypeInv
  <1>2. billed' \in [calls : Nat, cost : Nat]
    BY PricesAreNat DEF AttemptFails, Lost, Bill, LoopInv, TypeInv
  <1>3. attempt' \in Nat /\ nCalls' = nCalls /\ nCalls > 0
    BY DEF AttemptFails, NextAttempt, Lost, LoopInv, TypeInv, CallInv, Bill
  <1>4. QED
    BY <1>1, <1>2, <1>3, LoopStep DEF AttemptFails, Lost, LoopInv, TypeInv

LEMMA AcceptKeepsLoop ==
  ASSUME LoopInv, NEW price \in Prices, AcceptAnswer(price)
  PROVE  LoopInv' /\ \E c \in Calls : messages' = Append(messages, c)
  <1>0. PICK tool \in Tools, id \in {nCalls, nCalls - 1} : \E about \in About(tool) :
            messages' = Append(messages, Call(id, tool, about))
    BY DEF AcceptAnswer
  <1>1. PICK about \in About(tool) : messages' = Append(messages, Call(id, tool, about))
    BY <1>0
  <1>2. nCalls > 0 /\ nCalls \in Nat
    BY DEF AcceptAnswer, Answer, Bill, LoopInv, TypeInv, CallInv
  <1>3. id \in Nat
    BY <1>2
  <1>4. Call(id, tool, about) \in Calls
    BY <1>3, ACall
  <1>5. Calls \subseteq Messages
    BY DEF Messages
  <1>6. messages \in Seq(Messages)
    BY DEF LoopInv, TypeInv
  <1>7. /\ messages' \in Seq(Messages)
        /\ Len(messages') = Len(messages) + 1
        /\ messages'[Len(messages')] \in Calls
    BY <1>1, <1>4, <1>5, <1>6, Appending
  <1>8. billed' \in [calls : Nat, cost : Nat] /\ cost' \in Nat /\ attempt' \in Nat
    BY PricesAreNat DEF AcceptAnswer, Answer, Bill, LoopInv, TypeInv
  <1>9. LoopInv'
    BY <1>2, <1>6, <1>7, <1>8 DEF AcceptAnswer, LoopInv, TypeInv, CallInv, Running
  <1>10. QED
    BY <1>1, <1>4, <1>9

LEMMA RejectKeepsLoop ==
  ASSUME LoopInv, NEW price \in Prices, RejectAnswer(price)
  PROVE  LoopInv'
  <1>1. messages' \in Seq(Messages) /\ at' \in {"query", "ended"}
    BY ExitsAreMessages, ARejection, RecordsOne, RecordsTwo
       DEF ExitStatuses, RejectAnswer, RejectWith, EndWith, GoOn, LoopInv, TypeInv
  <1>2. billed' \in [calls : Nat, cost : Nat] /\ cost' \in Nat /\ attempt' \in Nat
        /\ formatErrors' \in Nat
    BY PricesAreNat DEF RejectAnswer, RejectWith, Answer, Bill, LoopInv, TypeInv
  <1>3. QED
    BY <1>1, <1>2, LoopStep DEF RejectAnswer, RejectWith, LoopInv, TypeInv

LEMMA ExecuteKeepsLoop == LoopInv /\ Execute => LoopInv'
  <1> SUFFICES ASSUME LoopInv, Execute PROVE LoopInv' OBVIOUS
  <1> DEFINE call == messages[Len(messages)]
  <1>1. messages \in Seq(Messages) /\ Results \subseteq Messages
    BY DEF LoopInv, TypeInv, Messages
  <1>2. ASSUME NEW ok \in BOOLEAN, NEW after \in Sessions, NEW chars \in Outputs,
               Returns(call, ok, after, chars),
               Result(call.id, ok, <<after.revision, after.epoch>>, chars) \in Results
        PROVE  LoopInv'
    <2>1. messages' \in Seq(Messages)
      BY <1>1, <1>2, RecordsOne DEF Returns, ReturnsWith, Observation, GoOn
    <2>2. at' = "query" /\ session' \in Sessions /\ formatErrors' = 0
      BY <1>2 DEF Returns, ReturnsWith, Observation, GoOn, ResetFormatErrors
    <2>3. QED
      BY <2>1, <2>2, LoopStep DEF Execute, LoopInv, TypeInv
  <1>3. ASSUME EndWith(<<Exit("Submitted")>>) \/ Raise, UNCHANGED <<session, formatErrors>>
        PROVE  LoopInv'
    <2>1. messages' \in Seq(Messages) /\ at' \in {"ended", "raised"}
      BY <1>1, <1>3, ExitsAreMessages, RecordsOne DEF ExitStatuses, EndWith, Raise
    <2>2. QED
      BY <1>3, <2>1, LoopStep DEF Execute, LoopInv, TypeInv
  <1>4. QED
    BY <1>2, <1>3, ToolCalls DEF LoopInv

LEMMA InterruptKeepsLoop == LoopInv /\ Interrupt => LoopInv' /\ messages' = messages
  <1> SUFFICES ASSUME LoopInv, Interrupt PROVE LoopInv' /\ messages' = messages OBVIOUS
  <1>1. messages' = messages
    BY DEF Interrupt, Record, Save, LoopInv, TypeInv
  <1>2. QED
    BY <1>1, LoopStep DEF Interrupt, LoopInv, TypeInv

LEMMA NextKeepsLoop == LoopInv /\ [Next]_vars => LoopInv'
  <1> SUFFICES ASSUME LoopInv, [Next]_vars PROVE LoopInv' OBVIOUS
  <1>1. CASE Next
    BY <1>1, StopKeepsLoop, QueryKeepsLoop, FailureKeepsLoop, AcceptKeepsLoop, RejectKeepsLoop,
       ExecuteKeepsLoop, InterruptKeepsLoop DEF Next, Step, Model
  <1>2. CASE UNCHANGED vars
    BY <1>2 DEF vars, LoopInv, TypeInv, CallInv
  <1>3. QED
    BY <1>1, <1>2

LEMMA SpecLoop == Spec => []LoopInv
  BY InitLoop, NextKeepsLoop, PTL DEF Spec

-----------------------------------------------------------------------------
(* What is counted *)

Bounded(S) == \E n \in Nat : \A x \in S : x <= n

LEMMA FinitePricesAreBounded ==
  ASSUME NEW S, S \subseteq Nat, IsFiniteSet(S)
  PROVE  Bounded(S)
  <1> DEFINE Sizes == {Cardinality(U) : U \in {V \in SUBSET S : ~Bounded(V)}}
  <1>1. SUFFICES ASSUME ~Bounded(S) PROVE FALSE
    OBVIOUS
  <1>2. \A U \in SUBSET S : IsFiniteSet(U) /\ Cardinality(U) \in Nat
    BY FS_Subset, FS_CardinalityType
  <1>3. Sizes \subseteq Nat /\ Sizes # {}
    BY <1>1, <1>2
  <1>4. PICK U \in SUBSET S : ~Bounded(U) /\ \A size \in Sizes : Cardinality(U) <= size
    BY <1>3, LeastExists
  <1>5. PICK u \in U : u \in Nat
    BY <1>4 DEF Bounded
  <1>6. IsFiniteSet(U \ {u}) /\ Cardinality(U \ {u}) = Cardinality(U) - 1
    BY <1>2, <1>5, FS_RemoveElement
  <1>7. Bounded(U \ {u})
    <2>1. ~(Cardinality(U) <= Cardinality(U \ {u}))
      BY <1>2, <1>6
    <2>2. QED
      BY <1>4, <2>1
  <1>8. PICK n \in Nat : \A x \in U \ {u} : x <= n
    BY <1>7 DEF Bounded
  <1>9. \A x \in U : x \in Nat /\ x <= n + u
    BY <1>5, <1>8
  <1>10. n + u \in Nat
    BY <1>5
  <1>11. QED
    BY <1>4, <1>9, <1>10 DEF Bounded

LEMMA DearestPrice == Max(Prices) \in Nat /\ \A price \in Prices : price <= Max(Prices)
  <1>1. Prices \subseteq Nat /\ IsFiniteSet(Prices) /\ Prices # {}
    BY AgentAssumption
  <1>2. PICK n \in Nat : \A price \in Prices : price <= n
    BY <1>1, FinitePricesAreBounded DEF Bounded
  <1>3. Prices \subseteq 0..n
    BY <1>1, <1>2
  <1>4. Max(Prices) \in Prices /\ \A price \in Prices : Max(Prices) >= price
    BY <1>1, <1>3, GreatestExists
  <1>5. QED
    BY <1>1, <1>4

CountInv ==
    /\ attempt <= Attempts
    /\ at \in {"query", "execute"} => attempt = 0
    /\ at = "model" => attempt < Attempts
    /\ formatErrors <= nCalls /\ (at = "model" => formatErrors < nCalls)
    /\ billed.calls <= nCalls /\ (at = "model" => billed.calls < nCalls)
    /\ config.steps > 0 => nCalls <= config.steps
    /\ at \in Running => cost = billed.cost
    /\ config.calls > 0 => /\ billed.calls <= config.calls
                           /\ at \in Running => billed.calls < config.calls
    /\ config.cost > 0 => /\ at = "model" => billed.cost < config.cost
                          /\ billed.cost < config.cost + Max(Prices)

LEMMA Limits ==
  ASSUME TypeInv
  PROVE  /\ config.steps \in Nat /\ config.cost \in Nat /\ config.formats \in Nat
         /\ config.calls \in Nat /\ config.spend \in Nat
         /\ billed.calls \in Nat /\ billed.cost \in Nat
         /\ Attempts \in Nat \ {0}
  BY AgentAssumption DEF TypeInv

LEMMA NextKeepsCount == LoopInv /\ CountInv /\ [Next]_vars => CountInv'
  <1> SUFFICES ASSUME LoopInv, CountInv, [Next]_vars PROVE CountInv' OBVIOUS
  <1> USE DEF CountInv, Running
  <1>1. /\ config.steps \in Nat /\ config.cost \in Nat /\ config.formats \in Nat
        /\ config.calls \in Nat /\ config.spend \in Nat
        /\ billed.calls \in Nat /\ billed.cost \in Nat
        /\ Attempts \in Nat \ {0} /\ Max(Prices) \in Nat
        /\ nCalls \in Nat /\ cost \in Nat /\ formatErrors \in Nat /\ attempt \in Nat
    BY Limits, DearestPrice DEF LoopInv, TypeInv
  <1>2. CASE Stop
    BY <1>1, <1>2 DEF Stop, EndWith
  <1>3. CASE Query
    BY <1>1, <1>3 DEF Query, OutOfBudget, Reached, Raise
  <1>4. CASE AttemptFails
    BY <1>1, <1>4 DEF AttemptFails, NextAttempt, Raise
  <1>5. ASSUME NEW price \in Prices, Bill(price)
        PROVE  /\ price \in Nat /\ price <= Max(Prices)
               /\ billed'.calls = billed.calls + 1 /\ billed'.cost = billed.cost + price
    BY <1>5, DearestPrice, PricesAreNat DEF Bill
  <1>6. CASE Lost
    <2>1. CASE at = "model" /\ UNCHANGED billed
      BY <1>1, <1>6, <2>1 DEF Lost, Raise
    <2>2. ASSUME NEW price \in Prices, Bill(price) PROVE CountInv'
      BY <1>1, <1>5, <1>6, <2>2 DEF Lost, Raise, Bill
    <2>3. QED
      BY <1>6, <2>1, <2>2 DEF Lost
  <1>7. ASSUME NEW price \in Prices, AcceptAnswer(price) PROVE CountInv'
    <2>1. Bill(price) /\ at = "model" /\ ~Reached(config.calls, billed.calls + 1)
      BY <1>5, <1>7 DEF AcceptAnswer, Answer, Bill, GlobalLimitExceeded
    <2>2. /\ billed'.calls = billed.calls + 1 /\ billed'.cost = billed.cost + price
          /\ price \in Nat /\ price <= Max(Prices)
      BY <1>5, <2>1
    <2>3. /\ at' = "execute" /\ attempt' = 0 /\ cost' = cost + price
          /\ UNCHANGED <<config, nCalls, formatErrors>>
      BY <1>7, Zenon DEF AcceptAnswer, Answer
    <2>4. QED
      BY <1>1, <2>1, <2>2, <2>3 DEF Reached
  <1>8. ASSUME NEW price \in Prices, RejectAnswer(price) PROVE CountInv'
    <2>1. Bill(price) /\ at = "model" /\ ~Reached(config.calls, billed.calls + 1)
      BY <1>5, <1>8 DEF RejectAnswer, RejectWith, Answer, Bill, GlobalLimitExceeded
    <2>2. at' \in {"query", "ended"}
      BY <1>8 DEF RejectAnswer, RejectWith, GoOn, EndWith
    <2>3. QED
      BY <1>1, <1>5, <1>8, <2>1, <2>2 DEF RejectAnswer, RejectWith, Answer, Reached
  <1>9. CASE Execute
    <2>1. at' \in {"query", "ended", "raised"} /\ formatErrors' \in {0, formatErrors}
      BY <1>9 DEF Execute, Returns, ReturnsWith, Observation, GoOn, EndWith, Raise, ResetFormatErrors
    <2>2. QED
      BY <1>1, <1>9, <2>1 DEF Execute
  <1>10. CASE Interrupt
    BY <1>1, <1>10 DEF Interrupt
  <1>11. CASE UNCHANGED vars
    BY <1>11 DEF vars
  <1>12. QED
    BY <1>2, <1>3, <1>4, <1>6, <1>7, <1>8, <1>9, <1>10, <1>11 DEF Next, Step, Model

LEMMA SpecCount == Spec => []CountInv
  <1>1. Init => CountInv
    BY AgentAssumption, DearestPrice DEF Init, CountInv, Running
  <1>2. QED
    BY <1>1, SpecLoop, NextKeepsCount, PTL DEF Spec

\* query, the model adapter and the global limits: what was really spent stays
\* within the limits but for the call that crossed them.
THEOREM SpendStaysBounded == Spec => []SpendIsBounded
  <1>1. LoopInv /\ CountInv => SpendIsBounded
    BY Limits DEF LoopInv, TypeInv, CountInv, SpendIsBounded, Running
  <1>2. QED
    BY <1>1, SpecLoop, SpecCount, PTL

-----------------------------------------------------------------------------
(* How a run ends *)

EndInv ==
    /\ Len(messages) >= 2
    /\ at \in Running => \A i \in 1..Len(messages) : messages[i].role # "exit"
    /\ at = "raised" => \A i \in 1..Len(messages) :
                            messages[i].role = "exit" => messages[i].status = "exception"
    /\ at = "ended" => \E i \in 1..Len(messages) :
                           messages[i].role = "exit" /\ messages[i].status # "exception"
    /\ at \in {"ended", "raised"} => trajectory = messages

\* A message that ends nothing is added, or an exit of its own kind.
LEMMA AddsOneEnds ==
  ASSUME EndInv, at \in Running, messages \in Seq(Messages), NEW m \in Messages,
         Len(messages') = Len(messages) + 1,
         messages'[Len(messages) + 1] = m,
         \A i \in 1..Len(messages) : messages'[i] = messages[i],
         \/ at' \in Running /\ m.role # "exit"
         \/ at' = "raised" /\ m = Exit("exception") /\ trajectory' = messages'
         \/ /\ at' = "ended" /\ trajectory' = messages'
            /\ m.role = "exit" /\ m.status # "exception"
  PROVE  EndInv'
  <1>1. Len(messages) \in Nat
    OBVIOUS
  <1>2. \A i \in 1..Len(messages') : i \in 1..Len(messages) \/ i = Len(messages) + 1
    BY <1>1
  <1>3. Len(messages) + 1 \in 1..Len(messages')
    BY <1>1
  <1>4. QED
    BY <1>1, <1>2, <1>3 DEF EndInv, Exit, Running

LEMMA RolesOfExits ==
  /\ \A status : Exit(status).role = "exit" /\ Exit(status).status = status
  /\ Rejection.role = "user"
  /\ \A m \in Calls : m.role = "assistant"
  /\ \A m \in Results : m.role = "tool"
  BY CallFields DEF Exit, Rejection, Results

\* What every step does to the messages, and where it leads.
Continues(m) ==
    /\ m \in Messages /\ at \in Running /\ UNCHANGED config
    /\ messages' \in Seq(Messages)
    /\ Len(messages') = Len(messages) + 1
    /\ messages'[Len(messages) + 1] = m
    /\ \A i \in 1..Len(messages) : messages'[i] = messages[i]

Ends(m) == Continues(m) /\ trajectory' = messages'

RecordsRejection ==
    /\ messages' \in Seq(Messages) /\ trajectory' = messages'
    /\ Len(messages') = Len(messages) + 2
    /\ messages'[Len(messages) + 1] = Rejection
    /\ messages'[Len(messages) + 2] = Exit("RepeatedFormatError")
    /\ \A i \in 1..Len(messages) : messages'[i] = messages[i]

Outcome ==
    \/ UNCHANGED <<messages, config>> /\ at = "query" /\ at' = "model" /\ UNCHANGED formatErrors
    \/ UNCHANGED <<messages, config, at, formatErrors>>
       /\ (at \in {"ended", "raised"} => UNCHANGED trajectory)
    \/ UNCHANGED <<messages, config>> /\ at \in Running /\ at' = "raised" /\ trajectory' = messages'
    \/ Ends(Exit("exception")) /\ at' = "raised"
    \/ Ends(Exit("Submitted")) /\ at' = "ended" /\ Ready /\ UNCHANGED session
    \/ Ends(Exit("LimitsExceeded")) /\ at' = "ended"
    \/ Ends(Exit("TimeExceeded")) /\ at' = "ended"
    \/ \E m \in Calls : /\ Continues(m) /\ at = "model" /\ at' = "execute"
                       /\ UNCHANGED formatErrors
    \/ \E m \in Results : /\ Continues(m) /\ at = "execute" /\ at' = "query"
                         /\ m.id = messages[Len(messages)].id /\ formatErrors' = 0
    \/ /\ Continues(Rejection) /\ at = "model" /\ at' = "query"
       /\ formatErrors' = formatErrors + 1 /\ ~Reached(config.formats, formatErrors')
    \/ /\ RecordsRejection
       /\ at = "model" /\ at' = "ended" /\ UNCHANGED config
       /\ formatErrors' = formatErrors + 1 /\ Reached(config.formats, formatErrors')

LEMMA Outcomes == LoopInv /\ [Next]_vars => Outcome
  <1> SUFFICES ASSUME LoopInv, [Next]_vars PROVE Outcome OBVIOUS
  <1> USE DEF Outcome, Ends, Continues, Running
  <1>1. messages \in Seq(Messages) /\ Calls \subseteq Messages /\ Results \subseteq Messages
    BY DEF LoopInv, TypeInv, Messages
  <1>2. ASSUME NEW m \in Messages, Record(<<m>>), at \in Running, UNCHANGED config
        PROVE  Ends(m)
    BY <1>1, <1>2, RecordsOne
  <1>3. CASE Stop
    BY <1>2, <1>3, ExitsAreMessages DEF Stop, EndWith, ExitStatuses
  <1>4. CASE Query
    BY <1>2, <1>4, ExitsAreMessages DEF Query, Raise, ExitStatuses
  <1>5. CASE AttemptFails
    BY <1>2, <1>5, ExitsAreMessages DEF AttemptFails, Raise, ExitStatuses
  <1>6. CASE Lost
    BY <1>2, <1>6, ExitsAreMessages DEF Lost, Bill, Raise, ExitStatuses
  <1>7. ASSUME NEW price \in Prices, AcceptAnswer(price) PROVE Outcome
    <2>1. PICK c \in Calls : messages' = Append(messages, c)
      BY <1>7, AcceptKeepsLoop
    <2>2. Continues(c)
      BY <1>1, <1>7, <2>1 DEF AcceptAnswer, Answer, Bill
    <2>3. at = "model" /\ at' = "execute" /\ UNCHANGED formatErrors
      BY <1>7 DEF AcceptAnswer, Answer, Bill
    <2>4. QED
      BY <2>2, <2>3
  <1>8. ASSUME NEW price \in Prices, RejectAnswer(price) PROVE Outcome
    <2>1. at = "model" /\ UNCHANGED config /\ formatErrors' = formatErrors + 1
      BY <1>8 DEF RejectAnswer, RejectWith, Answer, Bill
    <2>2. CASE Reached(config.formats, formatErrors')
      <3>1. Record(<<Rejection, Exit("RepeatedFormatError")>>) /\ at' = "ended"
        BY <1>8, <2>2 DEF RejectAnswer, RejectWith, EndWith
      <3>2. QED
        BY <1>1, <2>1, <2>2, <3>1, RecordsTwo, ARejection, ExitsAreMessages
           DEF RecordsRejection, ExitStatuses
    <2>3. CASE ~Reached(config.formats, formatErrors')
      <3>1. Record(<<Rejection>>) /\ at' = "query"
        BY <1>8, <2>3 DEF RejectAnswer, RejectWith, GoOn
      <3>2. Ends(Rejection)
        BY <1>2, <2>1, <3>1, ARejection
      <3>3. QED
        BY <2>1, <2>3, <3>1, <3>2
    <2>4. QED
      BY <2>2, <2>3
  <1>9. CASE Execute
    <2> DEFINE call == messages[Len(messages)]
    <2>1. at = "execute" /\ UNCHANGED config
      BY <1>9 DEF Execute
    <2>2. ASSUME NEW ok \in BOOLEAN, NEW after \in Sessions, NEW chars \in Outputs,
                 Returns(call, ok, after, chars),
                 Result(call.id, ok, <<after.revision, after.epoch>>, chars) \in Results
          PROVE  Outcome
      <3>1. /\ Record(<<Result(call.id, ok, <<after.revision, after.epoch>>, chars)>>)
            /\ at' = "query" /\ formatErrors' = 0
        BY <2>2 DEF Returns, ReturnsWith, Observation, GoOn, ResetFormatErrors
      <3>2. Result(call.id, ok, <<after.revision, after.epoch>>, chars).id = call.id
        BY DEF Result
      <3>3. QED
        BY <1>1, <1>2, <2>1, <2>2, <3>1, <3>2
    <2>3. ASSUME (Ready /\ EndWith(<<Exit("Submitted")>>)) \/ Raise, UNCHANGED session
          PROVE  Outcome
      BY <1>2, <2>1, <2>3, ExitsAreMessages DEF ExitStatuses, EndWith, Raise
    <2>4. QED
      BY <1>9, <2>2, <2>3, ToolCalls DEF LoopInv
  <1>10. CASE Interrupt
    BY <1>10, InterruptKeepsLoop DEF Interrupt, Record, Save
  <1>11. CASE UNCHANGED vars
    BY <1>11 DEF vars
  <1>12. QED
    BY <1>3, <1>4, <1>5, <1>6, <1>7, <1>8, <1>9, <1>10, <1>11 DEF Next, Step, Model

LEMMA NextKeepsEnd == LoopInv /\ EndInv /\ [Next]_vars => EndInv'
  <1> SUFFICES ASSUME LoopInv, EndInv, [Next]_vars PROVE EndInv' OBVIOUS
  <1>1. messages \in Seq(Messages) /\ Len(messages) \in Nat
    BY DEF LoopInv, TypeInv
  <1>2. Outcome
    BY Outcomes
  <1>3. CASE UNCHANGED messages
    BY <1>1, <1>2, <1>3 DEF Outcome, EndInv, Running, Ends, Continues, RecordsRejection
  <1>4. ASSUME NEW m, Continues(m),
               \/ at' \in Running /\ m.role # "exit"
               \/ at' = "raised" /\ m = Exit("exception") /\ trajectory' = messages'
               \/ /\ at' = "ended" /\ trajectory' = messages'
                  /\ m.role = "exit" /\ m.status # "exception"
        PROVE  EndInv'
    BY <1>1, <1>4, AddsOneEnds DEF Continues
  <1>5. CASE RecordsRejection /\ at' = "ended"
    <2>1. Len(messages) + 2 \in 1..Len(messages') /\ Len(messages') >= 2
      BY <1>1, <1>5 DEF RecordsRejection
    <2>2. messages'[Len(messages) + 2].role = "exit"
          /\ messages'[Len(messages) + 2].status # "exception"
      BY <1>5, RolesOfExits DEF RecordsRejection
    <2>3. QED
      BY <1>5, <2>1, <2>2 DEF EndInv, RecordsRejection, Running
  <1>6. QED
    BY <1>2, <1>3, <1>4, <1>5, RolesOfExits DEF Outcome, Ends, Running

LEMMA SpecEnd == Spec => []EndInv
  <1>1. Init => EndInv
    BY DEF Init, EndInv, Running, Message
  <1>2. QED
    BY <1>1, SpecLoop, NextKeepsEnd, PTL DEF Spec

\* run and step: the counters keep their ranges, and a run that ended says how,
\* on disk.
THEOREM AgentTypeOK == Spec => []TypeOK
  <1>1. LoopInv /\ CountInv /\ EndInv => TypeOK
    <2> SUFFICES ASSUME LoopInv, CountInv, EndInv PROVE TypeOK OBVIOUS
    <2>1. DOMAIN messages = 1..Len(messages) /\ session.results \in [Scopes -> {"none", "passed", "failed"}]
      BY DEF LoopInv, TypeInv, Sessions
    <2>2. formatErrors \in 0..nCalls /\ attempt \in 0..Attempts
      BY AgentAssumption DEF LoopInv, TypeInv, CountInv
    <2>3. at = "ended" <=> \E i \in DOMAIN messages : messages[i].role = "exit"
                                                     /\ messages[i].status # "exception"
      BY <2>1 DEF LoopInv, TypeInv, EndInv, Running
    <2>4. QED
      BY <2>1, <2>2, <2>3 DEF LoopInv, TypeInv, EndInv, TypeOK, Running
  <1>2. QED
    BY <1>1, SpecLoop, SpecCount, SpecEnd, PTL

-----------------------------------------------------------------------------
(* Format errors in a row *)

Rejected(i) == i > 2 /\ messages[i].role = "user"

\* The window of n messages after k holds something else.
Broken(k, n) == \E i \in k + 1 .. k + n : ~Rejected(i)

NoRow ==
    config.formats > 0 =>
        /\ \A k \in 0 .. Len(messages) - config.formats : Broken(k, config.formats)
        /\ \A i \in 1 .. Len(messages) : messages[i] # Exit("RepeatedFormatError")

RowInv ==
    /\ Len(messages) >= 2
    /\ NoRow \/ (at = "ended" /\ RepeatedMeansInARow)
    /\ at \in Running /\ config.formats > 0 => formatErrors < config.formats
    /\ at \in {"query", "model"} =>
          /\ formatErrors + 2 <= Len(messages)
          /\ formatErrors + 2 = Len(messages) \/ messages[Len(messages) - formatErrors].role # "user"
          /\ \A i \in Len(messages) - formatErrors + 1 .. Len(messages) : messages[i].role = "user"

LEMMA NoRowMeans == ASSUME TypeInv, NoRow PROVE RepeatedMeansInARow
  <1>1. config.formats \in Nat /\ Len(messages) \in Nat
    BY Limits DEF TypeInv
  <1>2. SUFFICES ASSUME config.formats > 0, NEW k \in 0 .. Len(messages) - config.formats
                 PROVE  /\ ~(\A i \in k + 1 .. k + config.formats : i > 2 /\ messages[i].role = "user")
                        /\ ~(/\ Len(messages) = k + config.formats + 1
                             /\ messages[k + config.formats + 1] = Exit("RepeatedFormatError"))
    BY DEF RepeatedMeansInARow
  <1>3. Broken(k, config.formats)
    BY <1>2 DEF NoRow
  <1>4. k + config.formats + 1 = Len(messages) => k + config.formats + 1 \in 1..Len(messages)
    BY <1>1
  <1>5. QED
    BY <1>2, <1>3, <1>4 DEF NoRow, Broken, Rejected

\* A message is added that does not complete a row.
LEMMA AddsOneRow ==
  ASSUME LoopInv, RowInv, at \in Running, NEW m, Continues(m), m # Exit("RepeatedFormatError"),
         \/ m.role # "user"
         \/ /\ at = "model" /\ formatErrors' = formatErrors + 1
            /\ config.formats > 0 => formatErrors + 1 < config.formats
  PROVE  NoRow'
  <1>1. config.formats \in Nat /\ Len(messages) \in Nat /\ formatErrors \in Nat
        /\ config' = config
    BY Limits DEF LoopInv, TypeInv, Continues
  <1>2. SUFFICES ASSUME config.formats > 0
                 PROVE  /\ \A k \in 0 .. Len(messages) + 1 - config.formats :
                              Broken(k, config.formats)'
                        /\ \A i \in 1 .. Len(messages) + 1 :
                              messages'[i] # Exit("RepeatedFormatError")
    BY <1>1 DEF NoRow, Continues
  <1>3. NoRow
    BY DEF RowInv, Running
  <1>4. ASSUME NEW i \in 1 .. Len(messages) + 1
        PROVE  messages'[i] # Exit("RepeatedFormatError")
    <2>1. i \in 1..Len(messages) \/ i = Len(messages) + 1
      BY <1>1
    <2>2. QED
      BY <1>2, <1>3, <2>1 DEF NoRow, Continues
  <1>5. ASSUME NEW k \in 0 .. Len(messages) - config.formats
        PROVE  Broken(k, config.formats)'
    <2>1. PICK i \in k + 1 .. k + config.formats : ~Rejected(i)
      BY <1>2, <1>3 DEF NoRow, Broken
    <2>2. i \in 1 .. Len(messages)
      BY <1>1, <2>1
    <2>3. messages'[i] = messages[i]
      BY <2>2 DEF Continues
    <2>4. QED
      BY <1>1, <2>1, <2>3 DEF Broken, Rejected
  <1>6. ASSUME NEW k \in 0 .. Len(messages) + 1 - config.formats,
               k = Len(messages) + 1 - config.formats
        PROVE  Broken(k, config.formats)'
    <2>1. CASE m.role # "user"
      <3>1. Len(messages) + 1 \in k + 1 .. k + config.formats
        BY <1>1, <1>2, <1>6
      <3>2. messages'[Len(messages) + 1].role # "user"
        BY <2>1 DEF Continues
      <3>3. QED
        BY <1>1, <3>1, <3>2 DEF Broken, Rejected
    <2>2. CASE at = "model" /\ formatErrors + 1 < config.formats
      <3>0. PICK j \in Nat : j = Len(messages) - formatErrors
        <4>1. formatErrors + 2 <= Len(messages)
          BY <2>2 DEF RowInv
        <4>2. Len(messages) - formatErrors \in Nat
          BY <1>1, <4>1
        <4>3. QED
          BY <4>2
      <3>1. j \in k + 1 .. k + config.formats /\ j \in 1 .. Len(messages)
        BY <1>1, <1>2, <1>6, <2>2, <3>0 DEF RowInv
      <3>2. messages'[j] = messages[j]
        BY <3>1 DEF Continues
      <3>3. ~(j > 2 /\ messages'[j].role = "user")
        BY <1>1, <2>2, <3>0, <3>2 DEF RowInv
      <3>4. QED
        BY <1>1, <3>1, <3>3 DEF Broken, Rejected
    <2>3. QED
      BY <1>2, <2>1, <2>2
  <1>7. QED
    BY <1>1, <1>4, <1>5, <1>6

LEMMA CompletesRow ==
  ASSUME LoopInv, RowInv, at = "model", RecordsRejection, UNCHANGED config,
         formatErrors' = formatErrors + 1, Reached(config.formats, formatErrors')
  PROVE  RepeatedMeansInARow'
  <1>1. config.formats \in Nat /\ Len(messages) \in Nat /\ formatErrors \in Nat
        /\ config' = config
    BY Limits DEF LoopInv, TypeInv
  <1>2. config.formats > 0 /\ config.formats = formatErrors + 1
    BY <1>1 DEF Reached, RowInv, Running
  <1>3. NoRow
    BY DEF RowInv
  <1>4. SUFFICES ASSUME NEW k \in 0 .. Len(messages') - config.formats'
                  PROVE  (\A i \in k + 1 .. k + config.formats' : i > 2 /\ messages'[i].role = "user")
                         <=> /\ Len(messages') = k + config.formats' + 1
                             /\ messages'[k + config.formats' + 1] = Exit("RepeatedFormatError")
    BY Zenon DEF RepeatedMeansInARow
  <1>5. k \in Nat /\ k + config.formats <= Len(messages) + 2
    BY <1>1, <1>2, <1>4 DEF RecordsRejection
  <1>6. SUFFICES  (\A i \in k + 1 .. k + config.formats : i > 2 /\ messages'[i].role = "user")
                        <=> /\ Len(messages) + 2 = k + config.formats + 1
                            /\ messages'[k + config.formats + 1] = Exit("RepeatedFormatError")
    BY <1>1, <1>4 DEF RecordsRejection
  <1>7. CASE k + config.formats <= Len(messages)
    <2>1. PICK i \in k + 1 .. k + config.formats : ~Rejected(i)
      BY <1>1, <1>2, <1>3, <1>7 DEF NoRow, Broken
    <2>2. i \in 1 .. Len(messages)
      BY <1>1, <1>7, <2>1
    <2>3. messages'[i] = messages[i]
      BY <2>2 DEF RecordsRejection
    <2>4. ~(i > 2 /\ messages'[i].role = "user")
      BY <2>1, <2>3 DEF Rejected
    <2>5. Len(messages) + 2 # k + config.formats + 1
      BY <1>1, <1>5, <1>7
    <2>6. QED
      BY <2>1, <2>4, <2>5
  <1>8. CASE k + config.formats = Len(messages) + 1
    <2>1. ASSUME NEW i \in k + 1 .. k + config.formats
          PROVE  i > 2 /\ messages'[i].role = "user"
      <3>1. i >= Len(messages) - formatErrors + 1 /\ i <= Len(messages) + 1 /\ i > 2
        BY <1>1, <1>2, <1>8 DEF RowInv
      <3>2. CASE i = Len(messages) + 1
        BY <3>1, <3>2, RolesOfExits DEF RecordsRejection
      <3>3. CASE i # Len(messages) + 1
        <4>1. i \in Len(messages) - formatErrors + 1 .. Len(messages) /\ i \in 1 .. Len(messages)
          BY <1>1, <3>1, <3>3
        <4>2. messages[i].role = "user"
          BY <4>1 DEF RowInv
        <4>3. messages'[i] = messages[i]
          BY <4>1 DEF RecordsRejection
        <4>4. QED
          BY <3>1, <4>2, <4>3
      <3>4. QED
        BY <3>2, <3>3
    <2>2. Len(messages) + 2 = k + config.formats + 1
      BY <1>1, <1>8
    <2>3. messages'[k + config.formats + 1] = Exit("RepeatedFormatError")
      BY <2>2 DEF RecordsRejection
    <2>4. QED
      BY <2>1, <2>2, <2>3
  <1>9. CASE k + config.formats = Len(messages) + 2
    <2>1. Len(messages) + 2 \in k + 1 .. k + config.formats
      BY <1>1, <1>2, <1>9
    <2>2. messages'[Len(messages) + 2].role # "user"
      BY RolesOfExits DEF RecordsRejection
    <2>3. QED
      BY <1>1, <1>9, <2>1, <2>2
  <1>10. \/ k + config.formats <= Len(messages)
        \/ k + config.formats = Len(messages) + 1
        \/ k + config.formats = Len(messages) + 2
    BY <1>1, <1>5
  <1>11. QED
    BY <1>7, <1>8, <1>9, <1>10

LEMMA NextKeepsRow == LoopInv /\ RowInv /\ [Next]_vars => RowInv'
  <1> SUFFICES ASSUME LoopInv, RowInv, [Next]_vars PROVE RowInv' OBVIOUS
  <1>1. /\ config.formats \in Nat /\ Len(messages) \in Nat /\ formatErrors \in Nat
        /\ at \in Running \cup {"ended", "raised"}
    BY Limits DEF LoopInv, TypeInv
  <1>2. Outcome
    BY Outcomes
  <1>3. CASE UNCHANGED <<messages, config>> /\ ~RecordsRejection
    <2>1. (NoRow => NoRow') /\ (RepeatedMeansInARow => RepeatedMeansInARow')
      BY <1>3 DEF NoRow, Broken, Rejected, RepeatedMeansInARow
    <2>2. \/ at = "query" /\ at' = "model" /\ UNCHANGED formatErrors
          \/ UNCHANGED <<at, formatErrors>>
          \/ at \in Running /\ at' = "raised"
      BY <1>1, <1>2, <1>3 DEF Outcome, Ends, Continues, RecordsRejection
    <2>3. QED
      BY <1>3, <2>1, <2>2 DEF RowInv, Running
  <1>4. ASSUME NEW m, Continues(m), m # Exit("RepeatedFormatError"), m.role # "user",
               \/ at' \in {"execute", "ended", "raised"} /\ (at' = "execute" => UNCHANGED formatErrors)
               \/ at' = "query" /\ formatErrors' = 0
        PROVE  RowInv'
    <2>1. NoRow'
      BY <1>4, AddsOneRow DEF Continues
    <2>2. Len(messages') = Len(messages) + 1 /\ messages'[Len(messages) + 1].role # "user"
          /\ UNCHANGED config /\ at \in Running
      BY <1>4 DEF Continues
    <2>3. QED
      BY <1>1, <1>4, <2>1, <2>2 DEF RowInv, Running
  <1>5. CASE /\ Continues(Rejection) /\ at = "model" /\ at' = "query"
             /\ formatErrors' = formatErrors + 1 /\ ~Reached(config.formats, formatErrors')
    <2>1. Rejection # Exit("RepeatedFormatError") /\ Rejection.role = "user"
      BY RolesOfExits
    <2>2. config.formats > 0 => formatErrors + 1 < config.formats
      BY <1>1, <1>5 DEF Reached
    <2>3. NoRow'
      BY <1>5, <2>1, <2>2, AddsOneRow DEF Running
    <2>4. Len(messages') = Len(messages) + 1 /\ messages'[Len(messages) + 1].role = "user"
          /\ UNCHANGED config
          /\ \A i \in 1..Len(messages) : messages'[i] = messages[i]
      BY <1>5, <2>1 DEF Continues
    <2>5. formatErrors + 2 <= Len(messages) /\ Len(messages') - formatErrors' = Len(messages) - formatErrors
      BY <1>1, <1>5, <2>4 DEF RowInv
    <2>6. \/ formatErrors' + 2 = Len(messages')
          \/ messages'[Len(messages') - formatErrors'].role # "user"
      <3>1. CASE formatErrors + 2 = Len(messages)
        BY <1>1, <1>5, <2>4, <3>1
      <3>2. CASE messages[Len(messages) - formatErrors].role # "user"
        <4>1. Len(messages) - formatErrors \in 1..Len(messages)
          BY <1>1, <2>5
        <4>2. messages'[Len(messages) - formatErrors].role # "user"
          BY <2>4, <3>2, <4>1
        <4>3. QED
          BY <2>5, <4>2
      <3>3. QED
        BY <1>5, <3>1, <3>2 DEF RowInv
    <2>7. ASSUME NEW i \in Len(messages') - formatErrors' + 1 .. Len(messages')
          PROVE  messages'[i].role = "user"
      <3>1. i = Len(messages) + 1 \/ i \in Len(messages) - formatErrors + 1 .. Len(messages)
        BY <1>1, <1>5, <2>4, <2>5
      <3>2. CASE i = Len(messages) + 1
        BY <2>4, <3>2
      <3>3. CASE i \in Len(messages) - formatErrors + 1 .. Len(messages)
        <4>1. i \in 1..Len(messages) /\ messages[i].role = "user"
          BY <1>1, <1>5, <2>5, <3>3 DEF RowInv
        <4>2. QED
          BY <2>4, <4>1
      <3>4. QED
        BY <3>1, <3>2, <3>3
    <2>8. QED
      <3>1. Len(messages') >= 2 /\ formatErrors' + 2 <= Len(messages')
        BY <1>1, <1>5, <2>4, <2>5
      <3>2. config'.formats > 0 => formatErrors' < config'.formats
        BY <1>5, <2>2, <2>4
      <3>3. QED
        BY <1>5, <2>3, <2>6, <2>7, <3>1, <3>2 DEF RowInv, Running
  <1>6. CASE /\ RecordsRejection /\ at = "model" /\ at' = "ended" /\ UNCHANGED config
             /\ formatErrors' = formatErrors + 1 /\ Reached(config.formats, formatErrors')
    <2>1. RepeatedMeansInARow'
      BY <1>6, CompletesRow
    <2>2. Len(messages') >= 2
      BY <1>1, <1>6 DEF RecordsRejection
    <2>3. QED
      BY <1>6, <2>1, <2>2 DEF RowInv, Running
  <1>7. \A status : Exit(status).role # "user"
        /\ (status # "RepeatedFormatError" => Exit(status) # Exit("RepeatedFormatError"))
    BY RolesOfExits
  <1>8. \A m \in Calls \cup Results : m.role # "user" /\ m # Exit("RepeatedFormatError")
    BY RolesOfExits
  <1>9. QED
    <2>1. ~RecordsRejection \/ ~UNCHANGED messages
      BY <1>1 DEF RecordsRejection
    <2>2. QED
      BY <1>2, <1>3, <1>4, <1>5, <1>6, <1>7, <1>8, <2>1 DEF Outcome, Ends

LEMMA SpecRow == Spec => []RowInv
  <1>1. Init => RowInv
    <2> SUFFICES ASSUME Init PROVE RowInv OBVIOUS
    <2>1. /\ Len(messages) = 2 /\ formatErrors = 0 /\ at = "query" /\ config.formats \in Nat
          /\ messages[1].role = "system" /\ messages[2].role = "user"
      BY AgentAssumption DEF Init, Message
    <2>2. NoRow
      <3>1. \A i \in 1..2 : messages[i] # Exit("RepeatedFormatError")
        BY <2>1, RolesOfExits
      <3>2. ASSUME config.formats > 0, NEW k \in 0 .. 2 - config.formats
            PROVE  Broken(k, config.formats)
        <4>1. k + 1 \in k + 1 .. k + config.formats /\ k + 1 <= 2
          BY <2>1, <3>2
        <4>2. QED
          BY <4>1 DEF Broken, Rejected
      <3>3. QED
        BY <2>1, <3>1, <3>2 DEF NoRow
    <2>3. QED
      BY <2>1, <2>2 DEF RowInv, Running
  <1>2. QED
    BY <1>1, SpecLoop, NextKeepsRow, PTL DEF Spec

\* run: the agent gives up for format errors exactly when as many answers as
\* configured were rejected in a row.
THEOREM RepeatedAlwaysMeansInARow == Spec => []RepeatedMeansInARow
  <1>1. LoopInv /\ RowInv => RepeatedMeansInARow
    BY NoRowMeans DEF LoopInv, RowInv
  <1>2. QED
    BY <1>1, SpecLoop, SpecRow, PTL

-----------------------------------------------------------------------------
(* What a projection keeps *)

LEMMA RecordFields ==
  ASSUME NEW ms \in Seq(Messages), NEW i \in Records(ms)
  PROVE  /\ i \in 1..Len(ms) /\ i + 1 \in 1..Len(ms) /\ i + 1 - 1 = i
         /\ ms[i] \in Calls /\ ms[i + 1] \in Results
  <1>1. i \in 1..Len(ms) /\ i < Len(ms) /\ ms[i].role = "assistant" /\ ms[i + 1].role = "tool"
    BY DEF Records
  <1>2. i + 1 \in 1..Len(ms) /\ i + 1 - 1 = i
    BY <1>1
  <1>3. ms[i] \in Messages /\ ms[i + 1] \in Messages
    BY <1>1, <1>2
  <1>4. \A m \in Messages : /\ m.role = "assistant" => m \in Calls
                            /\ m.role = "tool" => m \in Results
    BY RolesOfExits DEF Messages, Prompts, Exits
  <1>5. QED
    BY <1>1, <1>2, <1>3, <1>4

\* Compacting records changes nothing but that their results are not whole.
LEMMA CompactedFields ==
  ASSUME NEW ms \in Seq(Messages), NEW R, R \subseteq Records(ms)
  PROVE  /\ DOMAIN Compacted(ms, R) = 1..Len(ms)
         /\ Len(Compacted(ms, R)) = Len(ms)
         /\ \A i \in 1..Len(ms) : i - 1 \notin R => Compacted(ms, R)[i] = ms[i]
         /\ \A i \in R : Compacted(ms, R)[i + 1] = [ms[i + 1] EXCEPT !.whole = FALSE]
  <1>1. DOMAIN ms = 1..Len(ms) /\ Len(ms) \in Nat
    OBVIOUS
  <1>2. DOMAIN Compacted(ms, R) = 1..Len(ms) /\ Len(Compacted(ms, R)) = Len(ms)
    BY <1>1 DEF Compacted
  <1>3. \A i \in 1..Len(ms) : i - 1 \notin R => Compacted(ms, R)[i] = ms[i]
    BY <1>1 DEF Compacted
  <1>4. ASSUME NEW i \in R
        PROVE  Compacted(ms, R)[i + 1] = [ms[i + 1] EXCEPT !.whole = FALSE]
    <2>1. i \in Records(ms)
      OBVIOUS
    <2>2. i + 1 \in DOMAIN ms /\ (i + 1) - 1 = i
      BY <1>1, <2>1, RecordFields
    <2>3. (i + 1) - 1 \in R
      BY <2>2
    <2> DEFINE n == i + 1
    <2>4. n \in DOMAIN ms /\ n - 1 \in R
      BY <2>2, <2>3
    <2> HIDE DEF n
    <2>5. Compacted(ms, R)[n] = [ms[n] EXCEPT !.whole = FALSE]
      BY <2>4 DEF Compacted
    <2>6. QED
      BY <2>5 DEF n
  <1>5. QED
    BY <1>2, <1>3, <1>4

\* What a record of the copy is, given the record it was copied from.
CopiesBut(ms, R, c) ==
    /\ Records(c) = Records(ms)
    /\ \A i \in Records(ms) :
          /\ c[i] = ms[i]
          /\ c[i + 1].ok = ms[i + 1].ok /\ c[i + 1].stamp = ms[i + 1].stamp
          /\ c[i + 1].chars = ms[i + 1].chars
          /\ i \in R => c[i + 1].whole = FALSE
          /\ i \notin R => c[i + 1].whole = TRUE

LEMMA CompactedRecords ==
  ASSUME NEW ms \in Seq(Messages), NEW R, R \subseteq Records(ms),
         NEW c, c = Compacted(ms, R)
  PROVE  CopiesBut(ms, R, c)
  <1>1. DOMAIN c = 1..Len(ms) /\ Len(c) = Len(ms) /\ Len(ms) \in Nat /\ DOMAIN ms = 1..Len(ms)
    BY CompactedFields
  <1>2. ASSUME NEW i \in 1..Len(ms)
        PROVE  c[i].role = ms[i].role /\ (ms[i].role # "tool" => c[i] = ms[i])
    <2>1. CASE i - 1 \notin R
      BY <2>1, CompactedFields
    <2>2. CASE i - 1 \in R
      <3>1. ms[i] \in Results /\ c[i] = [ms[i] EXCEPT !.whole = FALSE]
        <4> DEFINE j == i - 1
        <4>1. j \in Records(ms) /\ j \in R /\ j + 1 = i
          BY <2>2
        <4> HIDE DEF j
        <4>2. ms[j + 1] \in Results /\ c[j + 1] = [ms[j + 1] EXCEPT !.whole = FALSE]
          BY <4>1, RecordFields, CompactedFields
        <4>3. QED
          BY <4>1, <4>2
      <3>2. QED
        BY <3>1 DEF Results
    <2>3. QED
      BY <2>1, <2>2
  <1>3. Records(c) = Records(ms)
    BY <1>1, <1>2 DEF Records
  <1>4. ASSUME NEW i \in Records(ms)
        PROVE  /\ c[i] = ms[i]
               /\ c[i + 1].ok = ms[i + 1].ok /\ c[i + 1].stamp = ms[i + 1].stamp
               /\ c[i + 1].chars = ms[i + 1].chars
               /\ i \in R => c[i + 1].whole = FALSE
               /\ i \notin R => c[i + 1].whole = TRUE
    <2>1. c[i] = ms[i]
      BY <1>2, RecordFields, RolesOfExits
    <2>2. ms[i + 1] \in Results /\ i + 1 \in 1..Len(ms) /\ (i + 1) - 1 = i
      BY RecordFields
    <2>3. CASE i \in R
      <3>1. c[i + 1] = [ms[i + 1] EXCEPT !.whole = FALSE]
        BY <2>3, CompactedFields
      <3>2. QED
        BY <2>1, <2>2, <2>3, <3>1 DEF Results
    <2>4. CASE i \notin R
      <3>1. (i + 1) - 1 \notin R
        BY <2>2, <2>4
      <3>2. c[i + 1] = ms[i + 1]
        BY <2>2, <3>1, CompactedFields
      <3>3. ms[i + 1].whole = TRUE
        BY <2>2 DEF Results
      <3>4. QED
        BY <2>1, <2>4, <3>2, <3>3
    <2>5. QED
      BY <2>3, <2>4
  <1>5. QED
    BY <1>3, <1>4 DEF CopiesBut

\* Stale validations are compacted, and nothing that is required and not stale.
KeepsRequired(ms, stamp, c) ==
    /\ Records(c) = Records(ms)
    /\ \A i \in Records(ms) :
          /\ c[i] = ms[i]
          /\ c[i + 1].ok = ms[i + 1].ok
          /\ c[i + 1].stamp = ms[i + 1].stamp
          /\ c[i + 1].chars = ms[i + 1].chars
          /\ Stale(ms, stamp, i) => c[i + 1].whole = FALSE
          /\ i \in Required(ms, stamp) /\ ~Stale(ms, stamp, i) => c[i + 1].whole = TRUE

LEMMA ProjectionRecords ==
  ASSUME NEW ms \in Seq(Messages), NEW stamp, NEW c, c = Projection(ms, stamp)
  PROVE  KeepsRequired(ms, stamp, c)
  <1> DEFINE first == FirstPass(ms, stamp)
             spare == Records(ms) \ (first \cup Required(ms, stamp))
             R == first \cup Squeezed(ms, first, spare)
  <1>1. c = Compacted(ms, R)
    BY DEF Projection
  <1>2. /\ R \subseteq Records(ms)
        /\ \A i \in Records(ms) : Stale(ms, stamp, i) => i \in R
        /\ \A i \in R : Stale(ms, stamp, i) \/ i \notin Required(ms, stamp)
    BY DEF FirstPass, Squeezed
  <1> HIDE DEF R
  <1>3. CopiesBut(ms, R, c)
    BY <1>1, <1>2, CompactedRecords
  <1>4. QED
    BY <1>2, <1>3, Zenon DEF CopiesBut, KeepsRequired

\* What follows the newest record of a kind, or the last record of all.
LEMMA NewestHasNone ==
  ASSUME NEW ms \in Seq(Messages), NEW S, S \subseteq Records(ms), S # {}
  PROVE  Newest(S) = {Max(S)} /\ Max(S) \in S /\ \A i \in S : Max(S) >= i
  <1>1. S \subseteq 0..Len(ms) /\ Len(ms) \in Nat
    BY RecordFields
  <1>2. QED
    BY <1>1, GreatestExists DEF Newest

LEMMA NotNewest ==
  ASSUME NEW ms \in Seq(Messages), NEW S, S \subseteq Records(ms),
         NEW i \in S, i \notin Newest(S)
  PROVE  \E j \in S : j > i
  <1>1. Newest(S) = {Max(S)} /\ Max(S) \in S /\ \A k \in S : Max(S) >= k
    BY NewestHasNone
  <1>2. i \in Nat /\ Max(S) \in Nat
    BY <1>1, RecordFields
  <1>3. QED
    BY <1>1, <1>2

LEMMA NotRecent ==
  ASSUME NEW ms \in Seq(Messages), NEW i \in Records(ms), i \notin Recent(ms)
  PROVE  \E j \in Records(ms) : j > i
  <1> DEFINE after == {j \in Records(ms) : j >= i}
  <1>1. ~ (Cardinality(after) <= RecentRounds)
    BY DEF Recent
  <1>2. ASSUME after = {i} PROVE FALSE
    <2>1. Cardinality(after) = 1
      BY <1>2, FS_Singleton
    <2>2. QED
      BY <1>1, <2>1, ProjectionAssumption
  <1>3. \A j \in Records(ms) : j \in Nat
    BY RecordFields
  <1>4. i \in after
    BY <1>3
  <1>5. PICK j \in after : j # i
    BY <1>2, <1>4
  <1>6. QED
    BY <1>3, <1>5

\* What the model is sent is the projection of the conversation as it is.
ContextInv == at = "model" => context = Projection(messages, Stamp)

EvidenceOf(ms, scope, stamp) ==
    {i \in Records(ms) : /\ Validates(ms, i)
                         /\ ms[i].about = scope
                         /\ Succeeded(ms, i)
                         /\ ms[i + 1].stamp = stamp}

\* What the gate counts as passed was seen to pass in this epoch.
EvidenceInv ==
    \A scope \in Scopes :
        session.results[scope] = "passed" => EvidenceOf(messages, scope, Stamp) # {}

LEMMA NextKeepsContext == ContextInv /\ [Next]_vars => ContextInv'
  <1> SUFFICES ASSUME ContextInv, [Next]_vars PROVE ContextInv' OBVIOUS
  <1>1. CASE Query
    BY <1>1 DEF Query, Raise, ContextInv, Stamp
  <1>2. CASE AttemptFails
    BY <1>2 DEF AttemptFails, Raise, ContextInv, Stamp
  <1>3. CASE UNCHANGED vars
    BY <1>3 DEF vars, ContextInv, Stamp
  <1>4. ASSUME at' # "model" PROVE ContextInv'
    BY <1>4 DEF ContextInv
  <1>5. CASE Stop \/ Lost \/ Execute \/ Interrupt
    BY <1>4, <1>5 DEF Stop, Lost, Execute, Interrupt, Raise, EndWith, Returns, ReturnsWith, Observation, GoOn
  <1>6. ASSUME NEW price \in Prices, AcceptAnswer(price) \/ RejectAnswer(price)
        PROVE  ContextInv'
    BY <1>4, <1>6 DEF AcceptAnswer, RejectAnswer, RejectWith, EndWith, GoOn
  <1>7. QED
    BY <1>1, <1>2, <1>3, <1>5, <1>6 DEF Next, Step, Model

LEMMA EvidenceGrows ==
  ASSUME LoopInv, [Next]_vars, NEW scope, NEW stamp
  PROVE  EvidenceOf(messages, scope, stamp) \subseteq EvidenceOf(messages', scope, stamp)
  <1>1. messages \in Seq(Messages) /\ Len(messages) \in Nat
    BY DEF LoopInv, TypeInv
  <1>2. /\ messages' \in Seq(Messages) /\ Len(messages') >= Len(messages)
        /\ \A i \in 1..Len(messages) : messages'[i] = messages[i]
    BY <1>1, Outcomes DEF Outcome, Ends, Continues, RecordsRejection
  <1>3. SUFFICES ASSUME NEW i \in EvidenceOf(messages, scope, stamp)
                 PROVE  i \in EvidenceOf(messages', scope, stamp)
    OBVIOUS
  <1>4. i \in Records(messages) /\ i \in 1..Len(messages) /\ i + 1 \in 1..Len(messages)
    BY <1>1, <1>3, RecordFields DEF EvidenceOf
  <1>5. messages'[i] = messages[i] /\ messages'[i + 1] = messages[i + 1]
    BY <1>2, <1>4
  <1>6. i \in Records(messages')
    BY <1>1, <1>2, <1>4, <1>5 DEF Records
  <1>7. QED
    BY <1>3, <1>5, <1>6 DEF EvidenceOf, Validates, Succeeded

\* The call that is executed and its result are a record.
LEMMA ReturnsRecord ==
  ASSUME LoopInv, at = "execute", NEW call, call = messages[Len(messages)],
         NEW r \in Results, Record(<<r>>)
  PROVE  /\ Len(messages) \in Records(messages')
         /\ messages'[Len(messages)] = call /\ messages'[Len(messages) + 1] = r
  <1>1. messages \in Seq(Messages) /\ Len(messages) \in Nat /\ Len(messages) > 0
        /\ call \in Calls /\ r \in Messages
    BY DEF LoopInv, TypeInv, CallInv, Messages
  <1>2. /\ messages' \in Seq(Messages) /\ Len(messages') = Len(messages) + 1
        /\ messages'[Len(messages) + 1] = r /\ messages'[Len(messages)] = call
    BY <1>1, RecordsOne
  <1>3. QED
    BY <1>1, <1>2, RolesOfExits DEF Records

LEMMA NextKeepsEvidence == LoopInv /\ EvidenceInv /\ [Next]_vars => EvidenceInv'
  <1> SUFFICES ASSUME LoopInv, EvidenceInv, [Next]_vars,
                      NEW scope \in Scopes, session'.results[scope] = "passed"
               PROVE  EvidenceOf(messages', scope, Stamp') # {}
    BY DEF EvidenceInv
  <1>1. ASSUME session.results[scope] = "passed",
               session'.revision = session.revision, session'.epoch = session.epoch
        PROVE  EvidenceOf(messages', scope, Stamp') # {}
    BY <1>1, EvidenceGrows DEF EvidenceInv, Stamp
  <1>2. CASE UNCHANGED session
    BY <1>1, <1>2
  <1>3. CASE Execute
    <2> DEFINE call == messages[Len(messages)]
    <2>1. at = "execute"
      BY <1>3 DEF Execute
    <2>2. call \in Calls /\ session \in Sessions
      BY <2>1 DEF LoopInv, TypeInv, CallInv
    <2> HIDE DEF call
    <2>3. ASSUME NEW ok \in BOOLEAN, NEW after \in Sessions, NEW chars \in Outputs,
                 Returns(call, ok, after, chars),
                 Result(call.id, ok, <<after.revision, after.epoch>>, chars) \in Results
          PROVE  EvidenceOf(messages', scope, Stamp') # {}
      <3> DEFINE r == Result(call.id, ok, <<after.revision, after.epoch>>, chars)
      <3>1. session' = after /\ Record(<<r>>)
        BY <2>3 DEF Returns, ReturnsWith, Observation, GoOn
      <3>2. CASE after = session
        BY <1>2, <3>1, <3>2
      <3>3. CASE after.results = NoResults
        BY <3>1, <3>3 DEF NoResults
      <3>4. CASE /\ call.tool = "validate"
                 /\ after = Judged(call.about, IF ok THEN "passed" ELSE "failed")
        <4>1. after.revision = session.revision /\ after.epoch = session.epoch
          BY <2>2, <3>4 DEF Sessions, Judged, Session
        <4>2. CASE scope # call.about
          <5>1. after.results[scope] = session.results[scope]
            BY <2>2, <3>4, <4>2 DEF Sessions, Judged, Session
          <5>2. QED
            BY <1>1, <3>1, <4>1, <5>1
        <4>3. CASE scope = call.about
          <5>1. ok = TRUE
            BY <2>2, <3>1, <3>4, <4>3 DEF Sessions, Judged, Session
          <5>2. r.ok = TRUE /\ r.stamp = Stamp'
            BY <3>1, <5>1 DEF Result, Stamp
          <5>3. /\ Len(messages) \in Records(messages')
                /\ messages'[Len(messages)] = call /\ messages'[Len(messages) + 1] = r
            BY <2>1, <2>3, <3>1, ReturnsRecord DEF call
          <5>4. Len(messages) \in EvidenceOf(messages', scope, Stamp')
            BY <3>4, <4>3, <5>2, <5>3 DEF EvidenceOf, Validates, Succeeded
          <5>5. QED
            BY <5>4
        <4>4. QED
          BY <4>2, <4>3
      <3>5. Effect(call, ok, after)
        BY <2>3 DEF Returns, ReturnsWith, Observation
      <3>6. \A changed \in BOOLEAN : Revised(changed).results = NoResults
        BY DEF Revised, Session
      <3>7. Reopened.results = NoResults
        BY DEF Reopened, Session
      <3>8. CASE call.tool \in {"edit", "rollback"}
        BY <3>2, <3>3, <3>5, <3>6, <3>8 DEF Effect
      <3>9. CASE call.tool = "validate"
        BY <3>2, <3>4, <3>5, <3>9 DEF Effect
      <3>10. CASE call.tool = "reopen"
        BY <3>2, <3>3, <3>5, <3>7, <3>10 DEF Effect
      <3>11. CASE call.tool \notin {"edit", "rollback", "validate", "reopen"}
        BY <3>2, <3>5, <3>11 DEF Effect
      <3>12. QED
        BY <3>8, <3>9, <3>10, <3>11
    <2>4. QED
      BY <1>2, <1>3, <2>3, ToolCalls DEF LoopInv, call
  <1>4. CASE ~Execute
    BY <1>2, <1>4 DEF Next, Step, Model, Stop, Query, AttemptFails, Lost, AcceptAnswer,
                      RejectAnswer, RejectWith, Interrupt, vars
  <1>5. QED
    BY <1>3, <1>4

LEMMA SpecContext == Spec => []ContextInv /\ []EvidenceInv
  <1>1. Init => ContextInv /\ EvidenceInv
    BY DEF Init, Fresh, Session, ContextInv, EvidenceInv, NoResults
  <1>2. QED
    BY <1>1, SpecLoop, NextKeepsContext, NextKeepsEvidence, PTL DEF Spec

\* What the projection says of the records in front of the model.
LEMMA ShownRecords ==
  ASSUME LoopInv, ContextInv, Asked
  PROVE  /\ Records(context) = Records(messages)
         /\ \A i \in Records(messages) :
               /\ context[i] = messages[i]
               /\ context[i + 1].ok = messages[i + 1].ok
               /\ context[i + 1].stamp = messages[i + 1].stamp
               /\ context[i + 1].chars = messages[i + 1].chars
               /\ Outdated(i) <=> Stale(messages, Stamp, i)
               /\ Outdated(i) => context[i + 1].whole = FALSE
               /\ i \in Required(messages, Stamp) /\ ~Outdated(i) => context[i + 1].whole = TRUE
  <1>1. messages \in Seq(Messages) /\ context = Projection(messages, Stamp)
    BY DEF LoopInv, TypeInv, ContextInv, Asked
  <1>2. /\ Records(context) = Records(messages)
        /\ \A i \in Records(messages) :
              /\ context[i] = messages[i]
              /\ context[i + 1].ok = messages[i + 1].ok
              /\ context[i + 1].stamp = messages[i + 1].stamp
              /\ context[i + 1].chars = messages[i + 1].chars
              /\ Stale(messages, Stamp, i) => context[i + 1].whole = FALSE
              /\ i \in Required(messages, Stamp) /\ ~Stale(messages, Stamp, i)
                    => context[i + 1].whole = TRUE
    <2>1. KeepsRequired(messages, Stamp, context)
      BY <1>1, ProjectionRecords
    <2>2. QED
      BY <2>1, Zenon DEF KeepsRequired
  <1>3. \A i \in Records(messages) : Outdated(i) <=> Stale(messages, Stamp, i)
    BY <1>2 DEF Outdated, Stale, Validates
  <1>4. ASSUME NEW i \in Records(messages)
        PROVE  /\ context[i] = messages[i]
               /\ context[i + 1].ok = messages[i + 1].ok
               /\ context[i + 1].stamp = messages[i + 1].stamp
               /\ context[i + 1].chars = messages[i + 1].chars
               /\ Outdated(i) <=> Stale(messages, Stamp, i)
               /\ Outdated(i) => context[i + 1].whole = FALSE
               /\ i \in Required(messages, Stamp) /\ ~Outdated(i)
                     => context[i + 1].whole = TRUE
    <2>1. /\ context[i] = messages[i]
          /\ context[i + 1].ok = messages[i + 1].ok
          /\ context[i + 1].stamp = messages[i + 1].stamp
          /\ context[i + 1].chars = messages[i + 1].chars
      BY <1>2
    <2>2. Outdated(i) <=> Stale(messages, Stamp, i)
      BY <1>3, Zenon
    <2>3. Outdated(i) => context[i + 1].whole = FALSE
      BY <1>2, <2>2, Zenon
    <2>4. i \in Required(messages, Stamp) /\ ~Outdated(i) => context[i + 1].whole = TRUE
      BY <1>2, <2>2, Zenon
    <2>5. QED
      BY <2>1, <2>2, <2>3, <2>4, Zenon
  <1>5. QED
    BY <1>2, <1>4, Zenon

\* project_messages: no output of a validation of an earlier revision or epoch
\* is in front of the model.
THEOREM StaleStaysHidden == Spec => []StaleIsNeverShown
  <1>1. ASSUME LoopInv, ContextInv, Asked, NEW i \in Records(context), Outdated(i)
        PROVE  ~Whole(i)
    BY <1>1, ShownRecords DEF Whole
  <1>2. LoopInv /\ ContextInv => StaleIsNeverShown
    BY <1>1 DEF StaleIsNeverShown
  <1>3. QED
    BY <1>2, SpecLoop, SpecContext, PTL

\* What is not required has a newer record of its kind.
LEMMA NotRequiredIsSuperseded ==
  ASSUME NEW ms \in Seq(Messages), NEW stamp, NEW i \in Records(ms),
         i \notin Required(ms, stamp), ~Stale(ms, stamp, i)
  PROVE  \E j \in Records(ms) :
            /\ j > i
            /\ ms[i + 1].ok /\ ms[i].tool \in {"read", "diff", "validate"} =>
                  ms[j + 1].ok /\ ms[j].tool = ms[i].tool /\ ms[j].about = ms[i].about
            /\ ~ms[i + 1].ok => ~ms[j + 1].ok
  <1> DEFINE of(tool, about) == {j \in Records(ms) : /\ ms[j].tool = tool
                                                     /\ ms[j].about = about
                                                     /\ Succeeded(ms, j)}
             current(scope) == {j \in Records(ms) : /\ Validates(ms, j)
                                                    /\ ms[j].about = scope
                                                    /\ Succeeded(ms, j)
                                                    /\ ms[j + 1].stamp = stamp}
             failed == {j \in Records(ms) : ~Succeeded(ms, j)}
  <1>1. /\ i \notin Recent(ms) /\ i \notin Newest(failed)
        /\ \A path \in Paths : i \notin Newest(of("read", path))
        /\ i \notin Newest(of("diff", "none"))
        /\ \A scope \in Scopes : i \notin Newest(current(scope))
    BY DEF Required, RequiredWith, NewestReads, NewestOf
  <1>2. ms[i].tool \in Tools /\ ms[i].about \in About(ms[i].tool)
    BY RecordFields, CallFields
  <1>3. CASE ~ms[i + 1].ok
    <2>1. i \in failed /\ failed \subseteq Records(ms)
      BY <1>3 DEF Succeeded
    <2>2. PICK j \in failed : j > i
      BY <1>1, <2>1, NotNewest
    <2>3. QED
      BY <1>3, <2>2 DEF Succeeded
  <1>4. CASE ms[i + 1].ok /\ ms[i].tool \in {"read", "diff"}
    <2>1. \A tool, about : of(tool, about) \subseteq Records(ms)
      OBVIOUS
    <2>2. i \in of(ms[i].tool, ms[i].about)
      BY <1>4 DEF Succeeded
    <2>3. i \notin Newest(of(ms[i].tool, ms[i].about))
      BY <1>1, <1>2, <1>4 DEF About
    <2>4. PICK j \in of(ms[i].tool, ms[i].about) : j > i
      BY <2>1, <2>2, <2>3, NotNewest
    <2>5. QED
      BY <1>4, <2>4 DEF Succeeded
  <1>5. CASE ms[i + 1].ok /\ ms[i].tool = "validate"
    <2>1. \A scope : current(scope) \subseteq Records(ms)
      OBVIOUS
    <2>2. i \in current(ms[i].about)
      BY <1>5 DEF Succeeded, Validates, Stale
    <2>3. i \notin Newest(current(ms[i].about))
      BY <1>1, <1>2, <1>5 DEF About
    <2>4. PICK j \in current(ms[i].about) : j > i
      BY <2>1, <2>2, <2>3, NotNewest
    <2>5. QED
      BY <1>5, <2>4 DEF Succeeded, Validates
  <1>6. CASE ms[i + 1].ok /\ ms[i].tool \notin {"read", "diff", "validate"}
    BY <1>1, <1>6, NotRecent
  <1>7. QED
    BY <1>3, <1>4, <1>5, <1>6

\* The newest of what proves a scope is required, and not stale.
LEMMA EvidenceIsRequired ==
  ASSUME NEW ms \in Seq(Messages), NEW stamp, NEW scope \in Scopes,
         EvidenceOf(ms, scope, stamp) # {}
  PROVE  \E i \in EvidenceOf(ms, scope, stamp) :
            i \in Required(ms, stamp) /\ ~Stale(ms, stamp, i)
  <1> DEFINE S == EvidenceOf(ms, scope, stamp)
  <1>1. S \subseteq Records(ms)
    BY DEF EvidenceOf
  <1>2. Newest(S) = {Max(S)} /\ Max(S) \in S
    BY <1>1, NewestHasNone
  <1>3. Newest(S) \subseteq Required(ms, stamp)
    BY DEF Required, RequiredWith, EvidenceOf
  <1>4. ~Stale(ms, stamp, Max(S))
    BY <1>2 DEF EvidenceOf, Stale
  <1>5. QED
    BY <1>2, <1>3, <1>4

\* project_messages: the evidence the gate counts, and the newest of everything
\* else the prompt promises, is in front of the model whenever it is asked.
THEOREM EvidenceStaysVisible == Spec => []EvidenceIsVisible
  <1>1. ASSUME LoopInv, ContextInv, EvidenceInv, Asked,
               NEW scope \in Scopes, session.results[scope] = "passed"
        PROVE  \E i \in Records(context) :
                   /\ context[i].tool = "validate" /\ context[i].about = scope
                   /\ context[i + 1].ok /\ context[i + 1].stamp = Stamp /\ Whole(i)
    <2>1. messages \in Seq(Messages) /\ EvidenceOf(messages, scope, Stamp) # {}
      BY <1>1 DEF LoopInv, TypeInv, EvidenceInv
    <2>2. PICK i \in EvidenceOf(messages, scope, Stamp) :
                 i \in Required(messages, Stamp) /\ ~Stale(messages, Stamp, i)
      BY <2>1, EvidenceIsRequired
    <2>3. i \in Records(messages) /\ messages[i].tool = "validate" /\ messages[i].about = scope
          /\ messages[i + 1].ok /\ messages[i + 1].stamp = Stamp
      BY <2>2 DEF EvidenceOf, Validates, Succeeded
    <2>4. i \in Records(context) /\ context[i] = messages[i] /\ Whole(i)
          /\ context[i + 1].ok = messages[i + 1].ok
          /\ context[i + 1].stamp = messages[i + 1].stamp
      BY <1>1, <2>2, <2>3, ShownRecords DEF Whole
    <2>5. QED
      BY <2>3, <2>4
  <1>2. ASSUME LoopInv, ContextInv, Asked, NEW i \in Records(context), ~Whole(i), ~Outdated(i)
        PROVE  \E j \in Records(context) :
                  /\ j > i
                  /\ IF context[i + 1].ok
                     THEN \/ context[i].tool \notin {"read", "diff", "validate"}
                          \/ /\ context[j + 1].ok
                             /\ context[j].tool = context[i].tool
                             /\ context[j].about = context[i].about
                     ELSE ~context[j + 1].ok
    <2>1. /\ messages \in Seq(Messages) /\ i \in Records(messages)
          /\ i \notin Required(messages, Stamp) /\ ~Stale(messages, Stamp, i)
      BY <1>2, ShownRecords DEF LoopInv, TypeInv, Whole
    <2>2. PICK j \in Records(messages) :
            /\ j > i
            /\ messages[i + 1].ok /\ messages[i].tool \in {"read", "diff", "validate"} =>
                  /\ messages[j + 1].ok
                  /\ messages[j].tool = messages[i].tool /\ messages[j].about = messages[i].about
            /\ ~messages[i + 1].ok => ~messages[j + 1].ok
      BY <2>1, NotRequiredIsSuperseded
    <2>3. /\ j \in Records(context)
          /\ context[i] = messages[i] /\ context[i + 1].ok = messages[i + 1].ok
          /\ context[j] = messages[j] /\ context[j + 1].ok = messages[j + 1].ok
      BY <1>2, <2>1, <2>2, ShownRecords
    <2>4. QED
      BY <2>2, <2>3
  <1>3. LoopInv /\ ContextInv /\ EvidenceInv => EvidenceIsVisible
    BY <1>1, <1>2 DEF EvidenceIsVisible
  <1>4. QED
    BY <1>3, SpecLoop, SpecContext, PTL

-----------------------------------------------------------------------------
(* How far a projection squeezes *)

LEMMA LengthsAreNat == \A r \in Results : r.chars \in Nat
  <1>1. Outputs \subseteq Nat
    BY AgentAssumption DEF Outputs
  <1>2. QED
    BY <1>1 DEF Results

\* What is squeezed is the oldest of what may be, and no more than it takes.
OldestOf(ms, first, spare, S) ==
    /\ S \subseteq spare
    /\ \A i \in S, j \in spare : j <= i => j \in S
    /\ spare \ S # {} => ~(Chars(Compacted(ms, first \cup S)) > MaxChars)
    /\ \A m \in S : (\A i \in S : i <= m) =>
          Chars(Compacted(ms, first \cup (S \ {m}))) > MaxChars

LEMMA SqueezedIsAPrefix ==
  ASSUME NEW ms \in Seq(Messages), NEW first, NEW spare, spare \subseteq Records(ms),
         NEW S, S = Squeezed(ms, first, spare)
  PROVE  OldestOf(ms, first, spare, S)
  <1> DEFINE Older(j) == {k \in spare : k < j}
             Over(j) == Chars(Compacted(ms, first \cup Older(j))) > MaxChars
  <1>1. S = {i \in spare : \A j \in spare : j <= i => Over(j)}
    BY DEF Squeezed
  <1>2. spare \subseteq Nat
    BY RecordFields
  <1>3. \A j : Over(j) = (Chars(Compacted(ms, first \cup Older(j))) > MaxChars)
    OBVIOUS
  <1> HIDE DEF Over
  <1>4. S \subseteq spare /\ \A i \in S, j \in spare : j <= i => j \in S
    BY <1>1, <1>2
  <1>5. ASSUME spare \ S # {}
        PROVE  ~(Chars(Compacted(ms, first \cup S)) > MaxChars)
    <2>1. PICK i \in spare \ S : \A k \in spare \ S : i <= k
      BY <1>2, <1>5, LeastExists
    <2>2. PICK j \in spare : j <= i /\ ~Over(j)
      BY <1>1, <2>1
    <2>3. Older(j) = S
      <3>1. ASSUME NEW k \in spare, k < j PROVE k \in S
        BY <1>2, <2>1, <2>2, <3>1
      <3>2. ASSUME NEW k \in S PROVE k \in spare /\ k < j
        <4>1. k \in spare /\ (j <= k => Over(j))
          BY <1>1, <2>2
        <4>2. QED
          BY <1>2, <2>2, <4>1
      <3>3. QED
        BY <3>1, <3>2
    <2>4. QED
      BY <1>3, <2>2, <2>3
  <1>6. ASSUME NEW m \in S, \A i \in S : i <= m
        PROVE  Chars(Compacted(ms, first \cup (S \ {m}))) > MaxChars
    <2>1. Over(m)
      BY <1>1, <1>2
    <2>2. Older(m) = S \ {m}
      <3>1. ASSUME NEW k \in spare, k < m PROVE k \in S \ {m}
        BY <1>2, <1>4, <3>1
      <3>2. ASSUME NEW k \in S \ {m} PROVE k \in spare /\ k < m
        BY <1>2, <1>4, <1>6
      <3>3. QED
        BY <3>1, <3>2
    <2>3. QED
      BY <1>3, <2>1, <2>2
  <1>7. QED
    BY <1>4, <1>5, <1>6 DEF OldestOf

\* What is required of a copy is what is required of what it was copied from.
LEMMA RequiredOfACopy ==
  ASSUME NEW ms, NEW stamp, NEW c, KeepsRequired(ms, stamp, c)
  PROVE  Required(c, stamp) = Required(ms, stamp)
  <1>1. /\ Records(c) = Records(ms)
        /\ \A i \in Records(ms) : /\ c[i] = ms[i]
                                   /\ c[i + 1].ok = ms[i + 1].ok
                                   /\ c[i + 1].stamp = ms[i + 1].stamp
    BY DEF KeepsRequired
  <1>2. Recent(c) = Recent(ms)
    BY <1>1 DEF Recent
  <1>3. \A tool, about : NewestOf(c, tool, about) = NewestOf(ms, tool, about)
    <2>1. ASSUME NEW tool, NEW about
          PROVE  NewestOf(c, tool, about) = NewestOf(ms, tool, about)
      <3>1. {i \in Records(c) : /\ c[i].tool = tool /\ c[i].about = about /\ Succeeded(c, i)}
              = {i \in Records(ms) : /\ ms[i].tool = tool /\ ms[i].about = about
                                     /\ Succeeded(ms, i)}
        BY <1>1 DEF Succeeded
      <3>2. QED
        BY <3>1 DEF NewestOf
    <2>2. QED
      BY <2>1
  <1>4. NewestReads(c) = NewestReads(ms)
    BY <1>3 DEF NewestReads
  <1> DEFINE current(x, scope) == {i \in Records(x) : /\ Validates(x, i)
                                                      /\ x[i].about = scope
                                                      /\ Succeeded(x, i)
                                                      /\ x[i + 1].stamp = stamp}
  <1>5. {Newest(current(c, scope)) : scope \in Scopes}
          = {Newest(current(ms, scope)) : scope \in Scopes}
    <2>1. \A scope : current(c, scope) = current(ms, scope)
      BY <1>1 DEF Validates, Succeeded
    <2> HIDE DEF current
    <2>2. QED
      BY <2>1
  <1>6. {i \in Records(c) : ~Succeeded(c, i)} = {i \in Records(ms) : ~Succeeded(ms, i)}
    BY <1>1 DEF Succeeded
  <1>7. \A x : Required(x, stamp)
                = UNION {Recent(x), NewestReads(x),
                         UNION {Newest(current(x, scope)) : scope \in Scopes},
                         NewestOf(x, "diff", "none"),
                         Newest({i \in Records(x) : ~Succeeded(x, i)})}
    BY DEF Required, RequiredWith
  <1> HIDE DEF current
  <1>8. QED
    BY <1>2, <1>3, <1>4, <1>5, <1>6, <1>7

Spared(c, stamp) == {i \in Records(c) \ Required(c, stamp) : c[i + 1].whole}

Dropped(c, stamp) ==
    {i \in Records(c) \ Required(c, stamp) : /\ ~c[i + 1].whole
                                            /\ ~Stale(c, stamp, i)
                                            /\ c[i + 1].chars <= CompactThreshold}

GivenBack(c, m) == [c EXCEPT ![m + 1].whole = TRUE]

\* Giving the newest squeezed record back is compacting without it.
LEMMA GivingOneBack ==
  ASSUME NEW ms \in Seq(Messages), NEW R, R \subseteq Records(ms), NEW m \in R,
         NEW c, c = Compacted(ms, R)
  PROVE  GivenBack(c, m) = Compacted(ms, R \ {m})
  <1> DEFINE d == Compacted(ms, R \ {m})
             e == [c EXCEPT ![m + 1].whole = TRUE]
  <1>1. /\ DOMAIN c = 1..Len(ms) /\ DOMAIN d = 1..Len(ms)
        /\ Len(ms) \in Nat /\ DOMAIN ms = 1..Len(ms)
    BY CompactedFields
  <1>2. m \in Nat /\ m + 1 \in 1..Len(ms) /\ (m + 1) - 1 = m /\ ms[m + 1] \in Results
    BY RecordFields
  <1>3. c[m + 1] = [ms[m + 1] EXCEPT !.whole = FALSE]
    BY CompactedFields
  <1>4. d[m + 1] = ms[m + 1]
    <2>1. (m + 1) - 1 \notin R \ {m}
      BY <1>2
    <2>2. QED
      BY <1>2, <2>1, CompactedFields
  <1>5. e[m + 1] = d[m + 1]
    <2>1. e[m + 1] = [c[m + 1] EXCEPT !.whole = TRUE]
      BY <1>1, <1>2
    <2>2. [[ms[m + 1] EXCEPT !.whole = FALSE] EXCEPT !.whole = TRUE] = ms[m + 1]
      BY <1>2 DEF Results
    <2>3. QED
      BY <1>3, <1>4, <2>1, <2>2
  <1>6. ASSUME NEW i \in 1..Len(ms), i # m + 1
        PROVE  e[i] = d[i]
    <2>1. e[i] = c[i]
      BY <1>1, <1>2, <1>6
    <2>2. i - 1 \in R <=> i - 1 \in R \ {m}
      BY <1>2, <1>6
    <2>3. c[i] = d[i]
      BY <1>1, <2>2 DEF Compacted
    <2>4. QED
      BY <2>1, <2>3
  <1>7. DOMAIN e = DOMAIN d
    BY <1>1
  <1>8. \A i \in DOMAIN d : e[i] = d[i]
    BY <1>1, <1>5, <1>6
  <1>9. e = [i \in DOMAIN c |-> e[i]] /\ d = [i \in DOMAIN d |-> d[i]]
    BY DEF Compacted
  <1> HIDE DEF d, e
  <1>10. e = d
    BY <1>1, <1>7, <1>8, <1>9
  <1>11. QED
    BY <1>10 DEF d, e, GivenBack

\* What project_messages leaves in a copy above its limit, and what it takes out
\* of one that is not.
LEMMA ProjectionSqueezes ==
  ASSUME NEW ms \in Seq(Messages), NEW stamp, NEW c, c = Projection(ms, stamp)
  PROVE  /\ Chars(c) > MaxChars => Spared(c, stamp) = {}
         /\ \A i \in Dropped(c, stamp), j \in Spared(c, stamp) : i < j
         /\ Dropped(c, stamp) # {} =>
               Chars([c EXCEPT ![Max(Dropped(c, stamp)) + 1].whole = TRUE]) > MaxChars
  <1>1. PICK first, spare, S, R :
           /\ first = FirstPass(ms, stamp)
           /\ spare = Records(ms) \ (first \cup Required(ms, stamp))
           /\ S = Squeezed(ms, first, spare)
           /\ R = first \cup S
           /\ c = Compacted(ms, R)
    BY Zenon DEF Projection
  <1>2. /\ first \subseteq Records(ms) /\ spare \subseteq Records(ms)
        /\ \A i \in Records(ms) \ Required(ms, stamp) :
              i \in first <=> Stale(ms, stamp, i) \/ ms[i + 1].chars > CompactThreshold
    BY <1>1 DEF FirstPass
  <1>3. /\ S \subseteq spare
        /\ \A i \in S, j \in spare : j <= i => j \in S
        /\ spare \ S # {} => ~(Chars(Compacted(ms, first \cup S)) > MaxChars)
        /\ \A m \in S : (\A i \in S : i <= m) =>
              Chars(Compacted(ms, first \cup (S \ {m}))) > MaxChars
    <2>1. OldestOf(ms, first, spare, S)
      BY <1>1, <1>2, SqueezedIsAPrefix
    <2>2. QED
      BY <2>1, Zenon DEF OldestOf
  <1>4. /\ Records(c) = Records(ms) /\ Required(c, stamp) = Required(ms, stamp)
        /\ \A i \in Records(ms) : /\ c[i] = ms[i]
                                   /\ c[i + 1].stamp = ms[i + 1].stamp
                                   /\ c[i + 1].chars = ms[i + 1].chars
    <2>1. KeepsRequired(ms, stamp, c)
      BY ProjectionRecords
    <2>2. QED
      BY <2>1, RequiredOfACopy DEF KeepsRequired
  <1>5. \A i \in Records(ms) : /\ i \in R => c[i + 1].whole = FALSE
                               /\ i \notin R => c[i + 1].whole = TRUE
    <2>1. R \subseteq Records(ms)
      BY <1>1, <1>2, <1>3
    <2>2. c = Compacted(ms, R)
      BY <1>1
    <2>3. CopiesBut(ms, R, c)
      BY <2>1, <2>2, CompactedRecords
    <2>4. QED
      BY <2>3, Zenon DEF CopiesBut
  <1>6. \A i \in Records(ms) : /\ i \in Nat /\ ms[i + 1].chars \in Nat
                               /\ Stale(c, stamp, i) <=> Stale(ms, stamp, i)
    BY <1>4, RecordFields, LengthsAreNat DEF Stale, Validates
  <1>7. Spared(c, stamp) = spare \ S
    BY <1>1, <1>2, <1>3, <1>4, <1>5 DEF Spared
  <1>8. Dropped(c, stamp) = S
    <2>1. ASSUME NEW i \in Dropped(c, stamp) PROVE i \in S
      <3>1. i \in Records(ms) \ Required(ms, stamp) /\ i \in R
        BY <1>4, <1>5, <2>1 DEF Dropped
      <3>2. ~Stale(ms, stamp, i) /\ ms[i + 1].chars <= CompactThreshold
        BY <1>4, <1>6, <2>1, <3>1 DEF Dropped
      <3>3. i \notin first
        BY <1>2, <1>6, <3>1, <3>2, ProjectionAssumption
      <3>4. QED
        BY <1>1, <3>1, <3>3
    <2>2. ASSUME NEW i \in S PROVE i \in Dropped(c, stamp)
      <3>1. i \in Records(ms) \ Required(ms, stamp) /\ i \notin first /\ i \in R
        BY <1>1, <1>3, <2>2
      <3>2. ~Stale(ms, stamp, i) /\ ms[i + 1].chars <= CompactThreshold
        BY <1>2, <1>6, <3>1, ProjectionAssumption
      <3>3. c[i + 1].whole = FALSE /\ c[i + 1].chars <= CompactThreshold /\ ~Stale(c, stamp, i)
        BY <1>4, <1>5, <1>6, <3>1, <3>2
      <3>4. QED
        BY <1>4, <3>1, <3>3 DEF Dropped
    <2>3. QED
      BY <2>1, <2>2
  <1>9. Chars(c) > MaxChars => Spared(c, stamp) = {}
    BY <1>1, <1>3, <1>7
  <1>10. \A i \in Dropped(c, stamp), j \in Spared(c, stamp) : i < j
    <2>1. ASSUME NEW i \in S, NEW j \in spare \ S PROVE i < j
      <3>1. i \in Nat /\ j \in Nat /\ ~(j <= i)
        BY <1>2, <1>3, <1>6
      <3>2. QED
        BY <3>1
    <2>2. QED
      BY <1>7, <1>8, <2>1
  <1>11. ASSUME Dropped(c, stamp) # {}
         PROVE  Chars([c EXCEPT ![Max(Dropped(c, stamp)) + 1].whole = TRUE]) > MaxChars
    <2> DEFINE m == Max(Dropped(c, stamp))
    <2>1. S # {} /\ S \subseteq Records(ms) /\ m = Max(S)
      BY <1>2, <1>3, <1>8, <1>11
    <2>2. m \in S /\ \A i \in S : m >= i
      BY <2>1, NewestHasNone
    <2>3. \A i \in S : i <= m
      BY <1>6, <2>1, <2>2
    <2>4. m \in R /\ R \subseteq Records(ms) /\ R \ {m} = first \cup (S \ {m})
      <3>1. R = first \cup S /\ m \notin first
        BY <1>1, <1>3, <2>2
      <3>2. QED
        BY <1>2, <1>3, <2>2, <3>1
    <2> HIDE DEF m
    <2>5. GivenBack(c, m) = Compacted(ms, R \ {m})
      <3>1. c = Compacted(ms, R)
        BY <1>1
      <3>2. QED
        BY <2>4, <3>1, GivingOneBack
    <2>6. Chars(Compacted(ms, R \ {m})) > MaxChars
      BY <1>3, <2>2, <2>3, <2>4
    <2>7. QED
      BY <2>5, <2>6 DEF m, GivenBack
  <1>12. QED
    BY <1>9, <1>10, <1>11

\* project_messages: a copy above its limit holds nothing that could have been
\* left out, and one within it was not squeezed further than it had to be.
THEOREM OverrunIsAlwaysNecessary == Spec => []OverrunIsNecessary
  <1>1. ASSUME LoopInv, ContextInv, Asked
        PROVE  /\ Chars(context) > MaxChars => Spared(context, Stamp) = {}
               /\ \A i \in Dropped(context, Stamp), j \in Spared(context, Stamp) : i < j
               /\ Dropped(context, Stamp) # {} =>
                     Chars([context EXCEPT ![Max(Dropped(context, Stamp)) + 1].whole = TRUE])
                         > MaxChars
    <2>1. messages \in Seq(Messages) /\ context = Projection(messages, Stamp)
      BY <1>1 DEF LoopInv, TypeInv, ContextInv, Asked
    <2>2. QED
      BY <2>1, ProjectionSqueezes
  <1>2. /\ Spared(context, Stamp) = {i \in Records(context) \ Required(context, Stamp) : Whole(i)}
        /\ Dropped(context, Stamp)
              = {i \in Records(context) \ Required(context, Stamp) :
                     /\ ~Whole(i) /\ ~Outdated(i)
                     /\ context[i + 1].chars <= CompactThreshold}
    BY DEF Spared, Dropped, Whole, Outdated, Stale, Validates
  <1>3. LoopInv /\ ContextInv => OverrunIsNecessary
    BY <1>1, <1>2 DEF OverrunIsNecessary
  <1>4. QED
    BY <1>3, SpecLoop, SpecContext, PTL

-----------------------------------------------------------------------------
(* Calls and their results *)

\* Up to n, every call has its own result and every result a call.
AnsweredAt(ms, n, i) ==
    /\ ms[i].role = "assistant" =>
          i < n /\ ms[i + 1].role = "tool" /\ ms[i + 1].id = ms[i].id
    /\ ms[i].role = "tool" => i > 1 /\ ms[i - 1].role = "assistant"

Answered(ms, n) == \A i \in 1..n : AnsweredAt(ms, n, i)

ProtocolInv ==
    /\ at \in {"query", "model"} => Answered(messages, Len(messages))
    /\ at = "execute" => Answered(messages, Len(messages) - 1)

\* A projection changes neither who speaks nor what about.
SameSpeakers(ms, c, n) ==
    \A i \in 1..n : /\ c[i].role = ms[i].role
                    /\ ms[i].role \in {"assistant", "tool"} => c[i].id = ms[i].id

LEMMA ProjectionSpeakers ==
  ASSUME NEW ms \in Seq(Messages), NEW stamp, NEW c, c = Projection(ms, stamp)
  PROVE  /\ DOMAIN c = 1..Len(ms) /\ Len(c) = Len(ms)
         /\ SameSpeakers(ms, c, Len(ms))
  <1> DEFINE first == FirstPass(ms, stamp)
             spare == Records(ms) \ (first \cup Required(ms, stamp))
             R == first \cup Squeezed(ms, first, spare)
  <1>1. c = Compacted(ms, R)
    BY DEF Projection
  <1>2. R \subseteq Records(ms)
    BY DEF FirstPass, Squeezed
  <1> HIDE DEF R
  <1>3. DOMAIN c = 1..Len(ms) /\ Len(c) = Len(ms)
    BY <1>1, <1>2, CompactedFields
  <1>4. ASSUME NEW i \in 1..Len(ms)
        PROVE  c[i].role = ms[i].role /\ (ms[i].role \in {"assistant", "tool"} => c[i].id = ms[i].id)
    <2>1. CASE i - 1 \notin R
      BY <1>1, <1>2, <2>1, CompactedFields
    <2>2. CASE i - 1 \in R
      <3> DEFINE j == i - 1
      <3>1. j \in R /\ j \in Records(ms)
        BY <1>2, <2>2
      <3>2. j + 1 = i
        OBVIOUS
      <3> HIDE DEF j
      <3>3. c[j + 1] = [ms[j + 1] EXCEPT !.whole = FALSE] /\ ms[j + 1] \in Results
        BY <1>1, <1>2, <3>1, CompactedFields, RecordFields
      <3>4. c[i] = [ms[i] EXCEPT !.whole = FALSE] /\ ms[i] \in Results
        BY <3>2, <3>3
      <3>5. QED
        BY <3>4 DEF Results
    <2>3. QED
      BY <2>1, <2>2
  <1>5. QED
    BY <1>3, <1>4 DEF SameSpeakers

LEMMA SpeakersAnswered ==
  ASSUME NEW ms, NEW c, NEW n \in Nat, SameSpeakers(ms, c, n), Answered(ms, n)
  PROVE  Answered(c, n)
  <1> SUFFICES ASSUME NEW i \in 1..n
               PROVE  /\ c[i].role = "assistant" =>
                           i < n /\ c[i + 1].role = "tool" /\ c[i + 1].id = c[i].id
                      /\ c[i].role = "tool" => i > 1 /\ c[i - 1].role = "assistant"
    BY DEF Answered, AnsweredAt
  <1>1. ASSUME c[i].role = "assistant"
        PROVE  i < n /\ c[i + 1].role = "tool" /\ c[i + 1].id = c[i].id
    <2>1. ms[i].role = "assistant" /\ c[i].id = ms[i].id
      BY <1>1 DEF SameSpeakers
    <2>2. i < n /\ ms[i + 1].role = "tool" /\ ms[i + 1].id = ms[i].id
      BY <2>1 DEF Answered, AnsweredAt
    <2>3. i + 1 \in 1..n
      BY <2>2
    <2>4. c[i + 1].role = "tool" /\ c[i + 1].id = ms[i + 1].id
      BY <2>2, <2>3 DEF SameSpeakers
    <2>5. QED
      BY <2>1, <2>2, <2>4
  <1>2. ASSUME c[i].role = "tool"
        PROVE  i > 1 /\ c[i - 1].role = "assistant"
    <2>1. i > 1 /\ ms[i - 1].role = "assistant"
      BY <1>2 DEF SameSpeakers, Answered, AnsweredAt
    <2>2. i - 1 \in 1..n
      BY <2>1
    <2>3. QED
      BY <2>1, <2>2 DEF SameSpeakers
  <1>3. QED
    BY <1>1, <1>2

LEMMA ProjectionAnswered ==
  ASSUME NEW ms \in Seq(Messages), NEW stamp, NEW c, c = Projection(ms, stamp),
         Answered(ms, Len(ms))
  PROVE  DOMAIN c = 1..Len(c) /\ Len(c) \in Nat /\ Answered(c, Len(c))
  <1>1. DOMAIN c = 1..Len(ms) /\ Len(c) = Len(ms) /\ SameSpeakers(ms, c, Len(ms))
    BY ProjectionSpeakers, Zenon
  <1>2. Len(ms) \in Nat
    OBVIOUS
  <1>3. QED
    BY <1>1, <1>2, SpeakersAnswered

\* One message more: a call may be left for its result to come, nothing else.
LEMMA AnsweredGrows ==
  ASSUME messages \in Seq(Messages), NEW m,
         Len(messages') = Len(messages) + 1, messages'[Len(messages) + 1] = m,
         \A i \in 1..Len(messages) : messages'[i] = messages[i]
  PROVE  /\ Answered(messages, Len(messages)) => Answered(messages', Len(messages') - 1)
         /\ Answered(messages, Len(messages)) /\ m.role \notin {"assistant", "tool"} =>
               Answered(messages', Len(messages'))
         /\ /\ Len(messages) > 0 /\ Answered(messages, Len(messages) - 1)
            /\ messages[Len(messages)].role = "assistant"
            /\ m.role = "tool" /\ m.id = messages[Len(messages)].id
            => Answered(messages', Len(messages'))
  <1> DEFINE n == Len(messages)
  <1>1. n \in Nat /\ Len(messages') = n + 1 /\ Len(messages') - 1 = n
    OBVIOUS
  <1>2. \A i \in 1..n : messages'[i] = messages[i]
    OBVIOUS
  <1>3. messages'[n + 1] = m
    OBVIOUS
  <1> HIDE DEF n
  <1>4. ASSUME Answered(messages, n)
        PROVE  Answered(messages', n)
    <2> SUFFICES ASSUME NEW i \in 1..n PROVE AnsweredAt(messages', n, i)
      BY DEF Answered
    <2>1. messages'[i] = messages[i]
      BY <1>2
    <2>2. i < n => messages'[i + 1] = messages[i + 1]
      BY <1>1, <1>2
    <2>3. i > 1 => messages'[i - 1] = messages[i - 1]
      BY <1>1, <1>2
    <2>4. QED
      BY <1>4, <2>1, <2>2, <2>3 DEF Answered, AnsweredAt
  <1>5. ASSUME Answered(messages, n), m.role \notin {"assistant", "tool"}
        PROVE  Answered(messages', n + 1)
    <2> SUFFICES ASSUME NEW i \in 1..n + 1 PROVE AnsweredAt(messages', n + 1, i)
      BY DEF Answered
    <2>1. i \in 1..n \/ i = n + 1
      BY <1>1
    <2>2. CASE i = n + 1
      BY <1>3, <1>5, <2>2 DEF AnsweredAt
    <2>3. CASE i \in 1..n
      BY <1>1, <1>4, <1>5, <2>3 DEF Answered, AnsweredAt
    <2>4. QED
      BY <2>1, <2>2, <2>3
  <1>6. ASSUME n > 0, Answered(messages, n - 1), messages[n].role = "assistant",
               m.role = "tool", m.id = messages[n].id
        PROVE  Answered(messages', n + 1)
    <2> SUFFICES ASSUME NEW i \in 1..n + 1 PROVE AnsweredAt(messages', n + 1, i)
      BY DEF Answered
    <2>1. i \in 1..n - 1 \/ i = n \/ i = n + 1
      BY <1>1
    <2>2. messages'[n] = messages[n]
      BY <1>1, <1>2, <1>6
    <2>3. CASE i = n + 1
      BY <1>1, <1>3, <1>6, <2>2, <2>3 DEF AnsweredAt
    <2>4. CASE i = n
      BY <1>3, <1>1, <1>6, <2>2, <2>4 DEF AnsweredAt
    <2>5. CASE i \in 1..n - 1
      <3>1. messages'[i] = messages[i]
        BY <1>1, <1>2, <2>5
      <3>2. i < n - 1 => messages'[i + 1] = messages[i + 1]
        BY <1>1, <1>2, <2>5
      <3>3. i > 1 => messages'[i - 1] = messages[i - 1]
        BY <1>1, <1>2, <2>5
      <3>4. QED
        BY <1>1, <1>6, <2>5, <3>1, <3>2, <3>3 DEF Answered, AnsweredAt
    <2>6. QED
      BY <2>1, <2>3, <2>4, <2>5
  <1>7. QED
    BY <1>1, <1>4, <1>5, <1>6 DEF n

LEMMA NextKeepsProtocol == LoopInv /\ EndInv /\ ProtocolInv /\ [Next]_vars => ProtocolInv'
  <1> SUFFICES ASSUME LoopInv, EndInv, ProtocolInv, [Next]_vars PROVE ProtocolInv' OBVIOUS
  <1>1. messages \in Seq(Messages) /\ Outcome /\ Len(messages) > 0
    BY Outcomes DEF LoopInv, TypeInv, EndInv
  <1>2. CASE at' \notin Running
    BY <1>2 DEF ProtocolInv, Running
  <1>3. CASE UNCHANGED messages /\ at' \in Running
    BY <1>1, <1>3 DEF Outcome, Ends, Continues, RecordsRejection, ProtocolInv, Running
  <1>4. ASSUME NEW m \in Calls, Continues(m), at = "model", at' = "execute"
        PROVE  ProtocolInv'
    BY <1>1, <1>4, AnsweredGrows DEF Continues, ProtocolInv
  <1>5. ASSUME NEW m \in Results, Continues(m), at = "execute", at' = "query",
               m.id = messages[Len(messages)].id
        PROVE  ProtocolInv'
    <2>1. messages[Len(messages)].role = "assistant" /\ m.role = "tool"
      BY <1>5, RolesOfExits DEF LoopInv, CallInv
    <2>2. QED
      BY <1>1, <1>5, <2>1, AnsweredGrows DEF Continues, ProtocolInv
  <1>6. CASE Continues(Rejection) /\ at = "model" /\ at' = "query"
    BY <1>1, <1>6, AnsweredGrows, RolesOfExits DEF Continues, ProtocolInv
  <1>7. QED
    BY <1>1, <1>2, <1>3, <1>4, <1>5, <1>6, Zenon DEF Outcome, Running

\* Whatever the last context was made of, its calls have their results.
ContextKept ==
    DOMAIN context = 1..Len(context) /\ Len(context) \in Nat /\ Answered(context, Len(context))

LEMMA NextKeepsContexts == LoopInv /\ ProtocolInv /\ ContextKept /\ [Next]_vars => ContextKept'
  <1> SUFFICES ASSUME LoopInv, ProtocolInv, ContextKept, [Next]_vars PROVE ContextKept' OBVIOUS
  <1>1. CASE Query
    <2>1. messages \in Seq(Messages) /\ Answered(messages, Len(messages))
      BY <1>1 DEF Query, LoopInv, TypeInv, ProtocolInv
    <2>2. context' = Projection(messages, Stamp)
      BY <1>1 DEF Query
    <2>3. QED
      BY <2>1, <2>2, ProjectionAnswered DEF ContextKept
  <1>2. CASE UNCHANGED context
    BY <1>2 DEF ContextKept
  <1>3. QED
    BY <1>1, <1>2 DEF Next, Step, Model, Stop, AttemptFails, Lost, AcceptAnswer, RejectAnswer,
       RejectWith, Execute, Interrupt, vars

\* query and _validate_tool_protocol: after failed tools, rejected answers and
\* compacted results a context is still a conversation in which every call has
\* its result, so that nothing but the provider's own identifiers can have it
\* refused.
THEOREM RefusedForIdentifiersAlone == Spec => []RefusedForIdentifiers
  <1>1. Init => ProtocolInv /\ ContextKept
    <2> SUFFICES ASSUME Init PROVE ProtocolInv /\ ContextKept OBVIOUS
    <2>1. /\ Len(messages) = 2 /\ at = "query" /\ context = <<>>
          /\ messages[1].role = "system" /\ messages[2].role = "user"
      BY DEF Init, Message
    <2>2. QED
      BY <2>1 DEF ProtocolInv, ContextKept, Answered, AnsweredAt
  <1>2. ContextKept => RefusedForIdentifiers
    <2> SUFFICES ASSUME ContextKept,
                        \A i \in DOMAIN context : context[i].role = "assistant" =>
                            /\ context[i].id # 0
                            /\ \A j \in DOMAIN context \ {i} :
                                  context[j].role = "assistant" => context[j].id # context[i].id
                 PROVE  WellFormed(context)
      BY Zenon DEF RefusedForIdentifiers
    <2>1. ASSUME NEW i \in DOMAIN context, context[i].role = "assistant"
          PROVE  i \in Records(context) /\ context[i + 1].id = context[i].id
      BY <2>1 DEF ContextKept, Answered, AnsweredAt, Records
    <2>2. ASSUME NEW i \in DOMAIN context, context[i].role = "tool"
          PROVE  i > 1 /\ i - 1 \in DOMAIN context /\ context[i - 1].role = "assistant"
      BY <2>2 DEF ContextKept, Answered, AnsweredAt
    <2>3. QED
      BY <2>1, <2>2 DEF WellFormed
  <1>3. QED
    BY <1>1, <1>2, SpecLoop, SpecEnd, NextKeepsProtocol, NextKeepsContexts, PTL DEF Spec

-----------------------------------------------------------------------------
(* The session the agent drives *)

\* Which sessions are tried for a call loses none the tool could leave.
THEOREM EveryEffectIsTried ==
  ASSUME session \in Sessions, NEW call \in Calls, NEW ok \in BOOLEAN, NEW after,
         Effect(call, ok, after)
  PROVE  \E changed \in BOOLEAN : after \in Afters(changed)
  <1>1. call.tool \in Tools /\ call.about \in About(call.tool)
    BY CallFields
  <1>2. CASE after = session
    BY <1>2 DEF Afters
  <1>3. CASE call.tool \in {"edit", "rollback"} /\ \E changed \in BOOLEAN : after = Revised(changed)
    BY <1>3 DEF Afters
  <1>4. CASE /\ call.tool = "validate"
             /\ after = Judged(call.about, IF ok THEN "passed" ELSE "failed")
    <2>1. call.about \in Scopes
      BY <1>1, <1>4 DEF About
    <2>2. PICK verdict \in {"passed", "failed"} : after = Judged(call.about, verdict)
      BY <1>4
    <2> DEFINE judged == {Judged(s, r) : s \in Scopes, r \in {"passed", "failed"}}
    <2>3. after \in judged
      BY <2>1, <2>2
    <2>4. Afters(TRUE) = {session, Revised(TRUE), Reopened} \cup judged
      BY DEF Afters
    <2> HIDE DEF judged
    <2>5. after \in Afters(TRUE)
      BY <2>3, <2>4
    <2>6. QED
      BY <2>5
  <1>5. CASE after = Reopened
    BY <1>5 DEF Afters
  <1>6. QED
    BY <1>2, <1>3, <1>4, <1>5 DEF Effect

\* The last message says that the repair was submitted.
Handed == messages[Len(messages)] = Exit("Submitted")

\* The session changes only by the effect of the tool that was called.
ToolUsed ==
    \E ok \in BOOLEAN, r \in Results :
        /\ Continues(r)
        /\ messages[Len(messages)] \in Calls
        /\ Effect(messages[Len(messages)], ok, session')

LEMMA OnlyToolsChange == LoopInv /\ [Next]_vars => UNCHANGED session \/ ToolUsed
  <1> SUFFICES ASSUME LoopInv, [Next]_vars PROVE UNCHANGED session \/ ToolUsed OBVIOUS
  <1>1. CASE Execute
    <2> DEFINE call == messages[Len(messages)]
    <2>1. call \in Calls /\ messages \in Seq(Messages) /\ Results \subseteq Messages
      BY <1>1 DEF Execute, LoopInv, TypeInv, CallInv, Messages
    <2>2. at \in Running /\ UNCHANGED config
      BY <1>1 DEF Execute, Running
    <2>3. ASSUME NEW ok \in BOOLEAN, NEW after \in Sessions, NEW chars \in Outputs,
                 Returns(call, ok, after, chars),
                 Result(call.id, ok, <<after.revision, after.epoch>>, chars) \in Results
          PROVE  ToolUsed
      <3> DEFINE r == Result(call.id, ok, <<after.revision, after.epoch>>, chars)
      <3>1. Record(<<r>>) /\ Effect(call, ok, session')
        BY <2>3 DEF Returns, ReturnsWith, Observation, GoOn
      <3>2. r \in Results
        BY <2>3
      <3> HIDE DEF r
      <3>3. Continues(r)
        BY <2>1, <2>2, <3>1, <3>2, RecordsOne DEF Continues
      <3>4. QED
        BY <2>1, <3>1, <3>2, <3>3 DEF ToolUsed
    <2>4. QED
      BY <1>1, <2>3, ToolCalls DEF LoopInv
  <1>2. CASE ~Execute
    BY <1>2 DEF Next, Step, Model, Stop, Query, AttemptFails, Lost, AcceptAnswer,
                RejectAnswer, RejectWith, Interrupt, vars
  <1>3. QED
    BY <1>1, <1>2

LEMMA StepDrivesSession ==
  LoopInv /\ EndInv /\ RowInv /\ [Next]_vars => [SessionNext]_<<session, Handed>>
  <1> SUFFICES ASSUME LoopInv, EndInv, RowInv, [Next]_vars
               PROVE  [SessionNext]_<<session, Handed>>
    OBVIOUS
  <1>1. messages \in Seq(Messages) /\ Len(messages) \in Nat /\ Len(messages) >= 2
    BY DEF LoopInv, TypeInv, RowInv
  <1>2. Outcome /\ (UNCHANGED session \/ ToolUsed)
    BY Outcomes, OnlyToolsChange
  <1>3. at \in Running => ~Handed
    BY <1>1 DEF EndInv, Handed, Exit, Running
  <1>4. ASSUME NEW m, Continues(m)
        PROVE  ~Handed /\ (Handed' <=> m = Exit("Submitted"))
    BY <1>1, <1>3, <1>4 DEF Continues, Handed, Exit
  <1>5. CASE ToolUsed
    <2> DEFINE call == messages[Len(messages)]
    <2>1. PICK ok \in BOOLEAN, r \in Results :
              Continues(r) /\ call \in Calls /\ Effect(call, ok, session')
      BY <1>5 DEF ToolUsed
    <2>2. r # Exit("Submitted")
      BY RolesOfExits
    <2>3. ~Handed /\ ~Handed'
      BY <1>4, <2>1, <2>2
    <2>4. call.tool \in Tools /\ call.about \in About(call.tool)
      BY <2>1, CallFields
    <2>5. PICK about \in Subjects(call.tool) :
              Effect([tool |-> call.tool, about |-> about], ok, session')
      <3> HIDE DEF call
      <3>1. CASE call.tool = "validate"
        BY <2>1, <2>4, <3>1 DEF Effect, Subjects, About
      <3>2. CASE call.tool # "validate"
        BY <2>1, <3>2 DEF Effect, Subjects
      <3>3. QED
        BY <3>1, <3>2
    <2>6. QED
      BY <2>3, <2>4, <2>5 DEF SessionNext, UseTool, Handed
  <1>6. CASE UNCHANGED session
    <2>1. CASE UNCHANGED messages
      BY <1>6, <2>1 DEF Handed
    <2>2. ASSUME NEW m, Continues(m), m # Exit("Submitted")
          PROVE  UNCHANGED <<session, Handed>>
      <3>1. ~Handed /\ ~Handed'
        BY <1>4, <2>2
      <3>2. Handed' = Handed
        BY <3>1 DEF Handed
      <3>3. QED
        BY <1>6, <3>2
    <2>3. CASE Ends(Exit("Submitted")) /\ Ready
      <3>1. ~Handed /\ Handed'
        BY <1>4, <2>3 DEF Ends
      <3>2. QED
        BY <1>6, <2>3, <3>1 DEF SessionNext, Accept, Handed
    <2>4. CASE RecordsRejection /\ at = "model"
      <3>1. messages'[Len(messages')] = Exit("RepeatedFormatError")
        BY <2>4 DEF RecordsRejection
      <3>2. ~Handed'
        BY <3>1 DEF Handed, Exit
      <3>3. ~Handed
        BY <1>3, <2>4 DEF Running
      <3>4. Handed' = Handed
        BY <3>2, <3>3 DEF Handed
      <3>5. QED
        BY <1>6, <3>4
    <2>5. /\ \A status \in Statuses \ {"Submitted"} : Exit(status) # Exit("Submitted")
          /\ \A m \in Calls \cup Results : m # Exit("Submitted")
          /\ Rejection # Exit("Submitted")
      BY RolesOfExits
    <2>6. QED
      BY <1>2, <2>1, <2>2, <2>3, <2>4, <2>5 DEF Outcome, Ends, Statuses
  <1>7. QED
    BY <1>2, <1>5, <1>6

\* execute_actions: over a whole run the agent's tools take the session only
\* where the repair environment lets them, once each, and never anywhere after
\* the repair was submitted.
THEOREM AgentDrivesSession == Spec => SessionSpec
  <1>1. Init => SessionInit
    BY DEF Init, SessionInit, Exit, Message
  <1>2. LoopInv /\ EndInv /\ RowInv /\ [Next]_vars =>
            [SessionNext]_<<session, messages[Len(messages)] = Exit("Submitted")>>
    BY StepDrivesSession DEF Handed
  <1>3. QED
    BY <1>1, <1>2, SpecLoop, SpecEnd, SpecRow, PTL DEF Spec, SessionSpec

=============================================================================
