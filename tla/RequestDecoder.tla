--------------------------- MODULE RequestDecoder ---------------------------
(***************************************************************************)
(* decodeInput and decodeRetry of internal/httpapi/httpapi.go: one pass    *)
(* over the tokens of a body that stops at the first thing it dislikes.    *)
(* The body is chosen token by token as the decoder asks for it, so every  *)
(* body with up to MaxMembers members is covered.                          *)
(***************************************************************************)
EXTENDS Naturals, Sequences, FiniteSets

CONSTANTS
    Keys,        \* the members of an acceptance, each with its field
    Strangers,   \* other member names
    MaxMembers   \* bound: members that a body has

\* The code has four keys.
ASSUME KeysAssumption == IsFiniteSet(Keys) /\ Keys \cap Strangers = {}
ASSUME MaxMembersAssumption == MaxMembers \in Nat

\* A member's value: of the field's type, null, of another type, or no JSON.
Values == {"fits", "null", "mismatch", "broken"}

\* A member of a retry body: retry_generation or not; an integer of 64 bits that
\* is not negative, another number, or no number.
RetryKeys == {"retry_generation", "other"}
Numbers == {"fits", "unfit", "nonnumber"}

Members == [key : Keys \cup Strangers, value : Values]
RetryMembers == [key : RetryKeys, value : Numbers]

VARIABLES
    kind,     \* which decoder runs: "input" or "retry"
    dpc,      \* its position
    utf8,     \* the body is valid UTF-8
    begin,    \* its first token: "{" or another
    members,  \* the members read so far
    end,      \* the token after the members: "}", or another, or none yet
    rest      \* what follows: nothing ("EOF"), something, or none read yet

vars == <<kind, dpc, utf8, begin, members, end, rest>>

Init ==
    /\ kind \in {"input", "retry"}
    /\ dpc = "start"
    /\ utf8 \in BOOLEAN
    /\ begin \in {"{", "other"}
    /\ members = <<>>
    /\ end = "unread" /\ rest = "unread"

\* The map seen of decodeInput.
Seen == {members[n].key : n \in 1..Len(members)}

Start ==
    /\ dpc = "start"
    /\ dpc' = IF utf8 /\ begin = "{" THEN "members" ELSE "invalid"
    /\ UNCHANGED <<kind, utf8, begin, members, end, rest>>

\* A decoder that lets a later member replace an earlier one.
GoodMemberTwice(m) == m.key \in Keys /\ m.value = "fits"

\* The member is new, known, not null and of its field's type.
GoodMember(m) == m.key \notin Seen /\ m.key \in Keys /\ m.value = "fits"

\* One turn of the loop of decodeInput.
ReadMember(m) ==
    /\ kind = "input" /\ dpc = "members"
    /\ Len(members) < MaxMembers
    /\ members' = Append(members, m)
    /\ dpc' = IF GoodMember(m) THEN "members" ELSE "invalid"
    /\ UNCHANGED <<kind, utf8, begin, end, rest>>

\* The only member of a retry body: key, number, ParseInt.
ReadGeneration(m) ==
    /\ kind = "retry" /\ dpc = "members"
    /\ members' = Append(members, m)
    /\ dpc' = IF m = [key |-> "retry_generation", value |-> "fits"] THEN "end" ELSE "invalid"
    /\ UNCHANGED <<kind, utf8, begin, end, rest>>

\* len(seen) == 4: every field has been set.
Complete == kind = "input" => Cardinality(Seen) = Cardinality(Keys)

\* decoder.More() is false, or a retry has its number: the closing brace, then
\* the number of members.  A retry body that closes at once has no key.
ReadEnd(t) ==
    /\ dpc \in {"members", "end"}
    /\ end' = t
    /\ dpc' = IF t = "}" /\ Complete /\ (kind = "retry" => dpc = "end") THEN "rest" ELSE "invalid"
    /\ UNCHANGED <<kind, utf8, begin, members, rest>>

\* The next token must be io.EOF.
ReadRest(t) ==
    /\ dpc = "rest"
    /\ rest' = t
    /\ dpc' = IF t = "EOF" THEN "valid" ELSE "invalid"
    /\ UNCHANGED <<kind, utf8, begin, members, end>>

Next ==
    \/ Start
    \/ \E m \in Members : ReadMember(m)
    \/ \E m \in RetryMembers : ReadGeneration(m)
    \/ \E t \in {"}", "other"} : ReadEnd(t)
    \/ \E t \in {"EOF", "other"} : ReadRest(t)

Spec == Init /\ [][Next]_vars
-----------------------------------------------------------------------------
(* What the bodies are, without a decoder *)

\* "There is exactly one flat input object": the four fields in any order, each
\* once; or the one field of a retry.
Document(ms) ==
    IF kind = "retry" THEN ms = <<[key |-> "retry_generation", value |-> "fits"]>>
    ELSE /\ Len(ms) = Cardinality(Keys)
         /\ \A k \in Keys : \E n \in 1..Len(ms) : ms[n] = [key |-> k, value |-> "fits"]

\* Ways to go on after the members read so far.
Continuations ==
    IF end # "unread" THEN {<<>>}
    ELSE IF kind = "retry" THEN {<<>>, <<[key |-> "retry_generation", value |-> "fits"]>>}
    ELSE UNION {[1..n -> [key : Keys, value : {"fits"}]] : n \in 0..Cardinality(Keys)}

\* What was read is the beginning of a body that should be accepted.
Promising ==
    /\ utf8 /\ begin = "{"
    /\ end \in {"unread", "}"} /\ rest \in {"unread", "EOF"}
    /\ \E more \in Continuations : Document(members \o more)

\* Only documents are accepted, and nothing is refused that could still become
\* one: a duplicated, missing, unknown, null or mistyped member, or anything
\* after the object, is what it takes (decodeInput, decodeRetry).
DecodesDocuments ==
    /\ dpc = "valid" => Document(members) /\ rest = "EOF"
    /\ dpc # "start" => ((dpc = "invalid") = ~Promising)
=============================================================================
