-------------------------- MODULE ContextProjection --------------------------
(***************************************************************************)
(* The conversation of the repair agent and the copy of it that a model    *)
(* call is sent: project_messages of src/fastfix/agents/repair.py.         *)
(*                                                                         *)
(* A tool result carries the revision and the epoch of the session it was  *)
(* given at (its stamp) and the length of its content; a compacted one is  *)
(* a marker, which may be longer than a short content was.  Every other    *)
(* message counts one character.                                           *)
(***************************************************************************)
EXTENDS Naturals, Sequences, FiniteSetsExt

CONSTANTS Paths,             \* files the agent reads
          Scopes,            \* what a validation is about: targeted, regression, run_ruff
          RecentRounds,      \* context_recent_rounds
          CompactThreshold,  \* context_compact_threshold
          MaxChars,          \* context_max_chars
          MarkerChars        \* length of a marker

ASSUME ProjectionAssumption ==
    /\ RecentRounds \in Nat \ {0} /\ CompactThreshold \in Nat /\ MaxChars \in Nat
    /\ MarkerChars \in Nat

Message(role) == [role |-> role]

Call(id, tool, about) ==
    [role |-> "assistant", id |-> id, tool |-> tool, about |-> about]

Result(id, ok, stamp, chars) ==
    [role |-> "tool", id |-> id, ok |-> ok, stamp |-> stamp, chars |-> chars,
     whole |-> TRUE]

Chars(messages) ==
    LET chars(i) == IF messages[i].role # "tool" THEN 1
                    ELSE IF messages[i].whole THEN messages[i].chars ELSE MarkerChars
    IN  MapThenSumSet(chars, DOMAIN messages)

\* A record is named by the index of its call; its result comes next.
Records(messages) ==
    {i \in DOMAIN messages : /\ messages[i].role = "assistant"
                             /\ i < Len(messages)
                             /\ messages[i + 1].role = "tool"}

Validates(messages, i) == messages[i].tool = "validate"
Succeeded(messages, i) == messages[i + 1].ok

\* Mutant: an epoch is not looked at.
StaleByRevision(messages, stamp, i) ==
    Validates(messages, i) /\ messages[i + 1].stamp[1] # stamp[1]

\* The output of a validation of another revision or epoch.
Stale(messages, stamp, i) ==
    Validates(messages, i) /\ messages[i + 1].stamp # stamp

Newest(records) == IF records = {} THEN {} ELSE {Max(records)}

NewestOf(messages, tool, about) ==
    Newest({i \in Records(messages) : /\ messages[i].tool = tool
                                      /\ messages[i].about = about
                                      /\ Succeeded(messages, i)})

Recent(messages) ==
    {i \in Records(messages) :
        Cardinality({j \in Records(messages) : j >= i}) <= RecentRounds}

NewestReads(messages) ==
    UNION {NewestOf(messages, "read", path) : path \in Paths}

\* Mutant: one newest read is kept instead of one for each path.
NewestReadOnly(messages) == Newest(NewestReads(messages))

RequiredWith(reads, messages, stamp) ==
    LET current(scope) ==
            Newest({i \in Records(messages) : /\ Validates(messages, i)
                                              /\ messages[i].about = scope
                                              /\ Succeeded(messages, i)
                                              /\ messages[i + 1].stamp = stamp})
    IN  UNION {Recent(messages), reads,
               UNION {current(scope) : scope \in Scopes},
               NewestOf(messages, "diff", "none"),
               Newest({i \in Records(messages) : ~Succeeded(messages, i)})}

RequiredOneRead(messages, stamp) ==
    RequiredWith(NewestReadOnly(messages), messages, stamp)

Required(messages, stamp) ==
    RequiredWith(NewestReads(messages), messages, stamp)

Compacted(messages, records) ==
    [i \in DOMAIN messages |->
        IF i - 1 \in records THEN [messages[i] EXCEPT !.whole = FALSE]
                             ELSE messages[i]]

\* The first pass: stale validations, and what is long and not required.
FirstPass(messages, stamp) ==
    {i \in Records(messages) :
        \/ Stale(messages, stamp, i)
        \/ /\ i \notin Required(messages, stamp)
           /\ messages[i + 1].chars > CompactThreshold}

\* Mutant: the second pass ends one record early.
TooFew(messages, first, spare) ==
    {i \in spare : \E j \in spare : j > i
                /\ Chars(Compacted(messages, first \cup {k \in spare : k < j})) > MaxChars}

\* The second pass: what is not required either, oldest first, for as long as
\* the copy is too long.
Squeezed(messages, first, spare) ==
    {i \in spare : \A j \in spare : j <= i =>
        Chars(Compacted(messages, first \cup {k \in spare : k < j})) > MaxChars}

Projection(messages, stamp) ==
    LET first == FirstPass(messages, stamp)
        spare == Records(messages) \ (first \cup Required(messages, stamp))
    IN  Compacted(messages, first \cup Squeezed(messages, first, spare))

\* _validate_tool_protocol: identifiers are not empty (0) and not used before,
\* and every call is followed by its own result.
WellFormed(messages) ==
    LET calls == {i \in DOMAIN messages : messages[i].role = "assistant"}
    IN  /\ \A i \in calls : /\ i \in Records(messages)
                            /\ messages[i].id # 0
                            /\ messages[i + 1].id = messages[i].id
                            /\ \A j \in calls \ {i} : messages[j].id # messages[i].id
        /\ \A i \in DOMAIN messages :
               messages[i].role = "tool" => i > 1 /\ i - 1 \in calls
=============================================================================
