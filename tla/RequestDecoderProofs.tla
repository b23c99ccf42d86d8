------------------------ MODULE RequestDecoderProofs ------------------------
(***************************************************************************)
(* The decoders accept the documents and refuse as soon as no document can *)
(* follow, for every finite set of fields and bodies of any length.        *)
(*                                                                         *)
(* The members read so far are good and have different keys, so they can   *)
(* be completed by the missing ones (Completion).  A document has no       *)
(* member to spare (NoneToSpare), so one bad or repeated member spoils     *)
(* every continuation.                                                     *)
(***************************************************************************)
EXTENDS RequestDecoder, FiniteSetTheorems, SequenceTheorems, TLAPS

Fit(k) == [key |-> k, value |-> "fits"]
Generation == Fit("retry_generation")
AnyMember == Members \cup RetryMembers

Typed ==
    /\ kind \in {"input", "retry"}
    /\ dpc \in {"start", "members", "end", "rest", "valid", "invalid"}
    /\ utf8 \in BOOLEAN
    /\ begin \in {"{", "other"}
    /\ members \in Seq(AnyMember)
    /\ end \in {"unread", "}", "other"}
    /\ rest \in {"unread", "EOF", "other"}

\* What was read at each position that is still going on.
Positions ==
    /\ dpc = "start" => members = <<>>
    /\ dpc \in {"members", "end", "rest", "valid"} => utf8 /\ begin = "{"
    /\ dpc \in {"start", "members", "end"} => end = "unread" /\ rest = "unread"
    /\ dpc \in {"rest", "valid"} => end = "}"
    /\ dpc = "rest" => rest = "unread"
    /\ dpc = "valid" => rest = "EOF"

\* Fields of an acceptance, each at most once.
Distinct ==
    /\ \A n \in 1..Len(members) : members[n].key \in Keys /\ members[n] = Fit(members[n].key)
    /\ \A n, p \in 1..Len(members) : members[n].key = members[p].key => n = p

InputRead ==
    kind = "input" /\ dpc \in {"start", "members", "rest", "valid"} =>
        Distinct /\ (dpc \in {"rest", "valid"} => Cardinality(Seen) = Cardinality(Keys))

RetryRead ==
    /\ kind = "input" => dpc # "end"
    /\ kind = "retry" =>
         /\ dpc = "members" => members = <<>>
         /\ dpc \in {"end", "rest", "valid"} => members = <<Generation>>

Reading == Typed /\ Positions /\ InputRead /\ RetryRead

DecoderInv == Reading /\ (dpc = "invalid" => ~Promising)
-----------------------------------------------------------------------------
\* ms holds every field of an acceptance at a position other than p.
Covers(ms, p) == \A k \in Keys : \E n \in 1..Len(ms) : n # p /\ ms[n] = Fit(k)

\* As many members as there are fields: none of them can be left out.
LEMMA NoneToSpare ==
    ASSUME NEW ms, Len(ms) = Cardinality(Keys), NEW p \in 1..Len(ms)
    PROVE  ~Covers(ms, p)
  <1> SUFFICES ASSUME Covers(ms, p) PROVE FALSE
    OBVIOUS
  <1> DEFINE N == Cardinality(Keys)
             T == (1..N) \ {p}
             pos == [k \in Keys |-> CHOOSE n \in T : ms[n] = Fit(k)]
  <1>1. IsFiniteSet(Keys) /\ N \in Nat
    BY KeysAssumption, FS_CardinalityType
  <1>2. \A k \in Keys : pos[k] \in T /\ ms[pos[k]] = Fit(k)
    BY DEF Covers
  <1>3. \A k, l \in Keys : Fit(k) = Fit(l) => k = l
    BY DEF Fit
  <1>4. pos \in Injection(Keys, T)
    <2>1. pos \in [Keys -> T] /\ DOMAIN pos = Keys
      BY <1>2
    <2>2. \A k, l \in Keys : pos[k] = pos[l] => k = l
      BY <1>2, <1>3
    <2> HIDE DEF pos
    <2>. QED
      BY <2>1, <2>2 DEF Injection, IsInjective
  <1>5. IsFiniteSet(1..N) /\ Cardinality(1..N) = N
    BY <1>1, FS_Interval
  <1>6. p \in 1..N
    OBVIOUS
  <1> HIDE DEF N
  <1>7. IsFiniteSet(T) /\ Cardinality(T) = N - 1
    BY <1>5, <1>6, FS_RemoveElement
  <1> HIDE DEF T, pos
  <1>8. Cardinality(Keys) <= Cardinality(T)
    BY <1>4, <1>7, FS_Injection
  <1>. QED
    BY <1>1, <1>7, <1>8 DEF N

\* Good members with different keys number as many as their keys.
LEMMA SeenCount ==
    ASSUME Typed, Distinct
    PROVE  /\ Len(members) \in Nat
           /\ Seen \subseteq Keys /\ IsFiniteSet(Seen) /\ Cardinality(Seen) = Len(members)
           /\ \A k \in Seen : \E n \in 1..Len(members) : members[n] = Fit(k)
  <1>1. Len(members) \in Nat
    BY LenProperties DEF Typed
  <1>2. Seen \subseteq Keys /\ \A k \in Seen : \E n \in 1..Len(members) : members[n] = Fit(k)
    BY DEF Distinct, Seen
  <1> DEFINE name == [n \in 1..Len(members) |-> members[n].key]
  <1>3. name \in Surjection(1..Len(members), Seen)
    BY DEF Surjection, Seen
  <1>4. name \in Injection(1..Len(members), Seen)
    BY <1>3 DEF Injection, Surjection, IsInjective, Distinct
  <1> HIDE DEF name
  <1>5. ExistsBijection(1..Len(members), Seen)
    BY <1>3, <1>4 DEF ExistsBijection, Bijection
  <1>6. IsFiniteSet(Seen) /\ Cardinality(Seen) = Len(members)
    BY <1>1, <1>2, <1>5, KeysAssumption, FS_Subset, FS_CountingElements
  <1>. QED
    BY <1>1, <1>2, <1>6

\* The rest of an acceptance: its missing fields, in some order.
LEMMA Completion ==
    ASSUME Typed, Distinct, kind = "input", end = "unread"
    PROVE  \E more \in Continuations : Document(members \o more)
  <1> DEFINE Left == Keys \ Seen
             m == Cardinality(Left)
  <1>1. /\ Len(members) \in Nat
        /\ Seen \subseteq Keys /\ IsFiniteSet(Seen) /\ Cardinality(Seen) = Len(members)
        /\ \A k \in Seen : \E n \in 1..Len(members) : members[n] = Fit(k)
    BY SeenCount
  <1>2. IsFiniteSet(Left) /\ m = Cardinality(Keys) - Cardinality(Seen)
    <2>1. Keys \cap Seen = Seen
      BY <1>1
    <2>2. /\ IsFiniteSet(Keys \ Seen)
          /\ Cardinality(Keys \ Seen) = Cardinality(Keys) - Cardinality(Keys \cap Seen)
      BY KeysAssumption, FS_Difference
    <2>. QED
      BY <2>1, <2>2
  <1>3. Cardinality(Keys) \in Nat /\ m \in Nat
    BY <1>2, KeysAssumption, FS_CardinalityType
  <1>4. PICK b \in Bijection(1..m, Left) : TRUE
    BY <1>2, FS_CardinalityType DEF ExistsBijection
  <1> HIDE DEF m
  <1>5. b \in [1..m -> Left] /\ \A k \in Left : \E n \in 1..m : b[n] = k
    BY <1>4 DEF Bijection, Surjection
  <1> DEFINE more == [n \in 1..m |-> Fit(b[n])]
             F == [key : Keys, value : {"fits"}]
  <1>6. more \in [1..m -> F]
    BY <1>5 DEF Fit
  <1>7. more \in Continuations
    <2>1. m \in 0..Cardinality(Keys)
      BY <1>1, <1>2, <1>3
    <2>. QED
      BY <1>6, <2>1 DEF Continuations
  <1>8. /\ more \in Seq(AnyMember) /\ Len(more) = m
    <2>1. F \subseteq AnyMember
      BY DEF AnyMember, Members, Values
    <2>2. more \in [1..m -> AnyMember]
      BY <1>6, <2>1
    <2> HIDE DEF more, F
    <2>3. more \in Seq(AnyMember)
      BY <1>3, <2>2, SeqDef
    <2>4. Len(more) = m
      BY <1>3, <2>2, <2>3, LenProperties
    <2>. QED
      BY <2>3, <2>4
  <1> DEFINE ms == members \o more
  <1>9. /\ Len(ms) = Len(members) + m
        /\ \A i \in 1..(Len(members) + m) :
             ms[i] = IF i <= Len(members) THEN members[i] ELSE more[i - Len(members)]
    <2>1. members \in Seq(AnyMember)
      BY DEF Typed
    <2> HIDE DEF more
    <2>. QED
      BY <1>8, <2>1, ConcatProperties
  <1>10. Len(ms) = Cardinality(Keys)
    BY <1>1, <1>2, <1>3, <1>9
  <1>11. ASSUME NEW k \in Keys PROVE \E n \in 1..Len(ms) : ms[n] = Fit(k)
    <2>1. CASE k \in Seen
      <3>1. PICK n \in 1..Len(members) : members[n] = Fit(k)
        BY <1>1, <2>1
      <3>2. n \in 1..Len(ms) /\ ms[n] = members[n]
        BY <1>1, <1>3, <1>9
      <3>. QED
        BY <3>1, <3>2
    <2>2. CASE k \in Left
      <3>1. PICK n \in 1..m : b[n] = k
        BY <1>5, <2>2
      <3>2. more[n] = Fit(k)
        BY <3>1
      <3> HIDE DEF more
      <3>3. Len(members) + n \in 1..Len(ms) /\ ms[Len(members) + n] = more[n]
        BY <1>1, <1>3, <1>9
      <3>. QED
        BY <3>2, <3>3
    <2>. QED
      BY <2>1, <2>2
  <1> HIDE DEF more, ms
  <1>12. Document(ms)
    BY <1>10, <1>11 DEF Document, Fit
  <1>. QED
    BY <1>7, <1>12 DEF ms
-----------------------------------------------------------------------------
\* While the decoder goes on, a document may follow.
LEMMA ReadingIsPromising ==
    ASSUME Reading, dpc \notin {"start", "invalid"}
    PROVE  Promising /\ (dpc = "valid" => Document(members) /\ rest = "EOF")
  <1>1. utf8 /\ begin = "{" /\ end \in {"unread", "}"} /\ rest \in {"unread", "EOF"}
    BY DEF Reading, Typed, Positions
  <1>2. members \o <<>> = members
    BY ConcatEmptySeq DEF Reading, Typed
  <1>3. CASE kind = "input" /\ dpc = "members"
    <2>1. Typed /\ Distinct /\ end = "unread"
      BY <1>3 DEF Reading, Positions, InputRead
    <2>. QED
      BY <1>1, <1>3, <2>1, Completion DEF Promising
  <1>4. CASE kind = "input" /\ dpc \in {"rest", "valid"}
    <2>1. Typed /\ Distinct /\ end # "unread" /\ Cardinality(Seen) = Cardinality(Keys)
      BY <1>4 DEF Reading, Positions, InputRead
    <2>2. Seen = Keys /\ Len(members) = Cardinality(Keys)
      BY <2>1, SeenCount, KeysAssumption, FS_Subset
    <2>3. Document(members)
      BY <1>4, <2>1, <2>2, SeenCount DEF Document, Fit
    <2>4. Continuations = {<<>>}
      BY <2>1 DEF Continuations
    <2>. QED
      BY <1>1, <1>2, <1>4, <2>3, <2>4 DEF Promising, Reading, Positions
  <1>5. CASE kind = "retry" /\ dpc = "members"
    <2>1. members = <<>> /\ end = "unread"
      BY <1>5 DEF Reading, Positions, RetryRead
    <2>2. <<Generation>> \in Continuations
      BY <1>5, <2>1 DEF Continuations, Generation, Fit
    <2>3. members \o <<Generation>> = <<Generation>>
      BY <2>1
    <2>4. Document(members \o <<Generation>>)
      BY <1>5, <2>3 DEF Document, Generation, Fit
    <2>. QED
      BY <1>1, <1>5, <2>2, <2>4 DEF Promising
  <1>6. CASE kind = "retry" /\ dpc \in {"end", "rest", "valid"}
    <2>1. members = <<Generation>>
      BY <1>6 DEF Reading, RetryRead
    <2>2. Document(members)
      BY <1>6, <2>1 DEF Document, Generation, Fit
    <2>3. <<>> \in Continuations
      BY <1>6 DEF Continuations
    <2>. QED
      BY <1>1, <1>2, <1>6, <2>2, <2>3 DEF Promising, Reading, Positions
  <1>. QED
    BY <1>3, <1>4, <1>5, <1>6 DEF Reading, Typed, RetryRead

LEMMA DecoderInit == Init => DecoderInv
  <1> SUFFICES ASSUME Init PROVE DecoderInv
    OBVIOUS
  <1>1. members = <<>> /\ members \in Seq(AnyMember) /\ Len(members) = 0
    BY EmptySeq DEF Init
  <1>2. Distinct
    BY <1>1 DEF Distinct
  <1>. QED
    BY <1>1, <1>2 DEF Init, DecoderInv, Reading, Typed, Positions, InputRead, RetryRead

\* A retry body without members has no generation.
LEMMA NoMemberYet == <<>> # <<Generation>>
  <1>1. Len(<<>>) = 0 /\ Len(<<Generation>>) = 1
    OBVIOUS
  <1>. QED
    BY <1>1

\* What the next member changes.
LEMMA Appended ==
    ASSUME Typed, NEW m \in Members, members' = Append(members, m)
    PROVE  /\ members' \in Seq(AnyMember) /\ Len(members) \in Nat /\ Len(members') = Len(members) + 1
           /\ \A i \in 1..Len(members) : members'[i] = members[i]
           /\ members'[Len(members) + 1] = m
  <1>1. members \in Seq(AnyMember) /\ m \in AnyMember
    BY DEF Typed, AnyMember
  <1>. QED
    BY <1>1, AppendProperties, LenProperties

\* A bad or repeated member spoils every continuation.
LEMMA BadMember ==
    ASSUME Reading, NEW m \in Members, ReadMember(m), ~GoodMember(m)
    PROVE  ~Promising'
  <1> SUFFICES ASSUME Promising' PROVE FALSE
    OBVIOUS
  <1>1. /\ kind = "input" /\ kind' = "input" /\ end' = "unread" /\ members' = Append(members, m)
        /\ Typed /\ Distinct
    BY DEF ReadMember, Reading, Positions, InputRead
  <1>2. PICK more \in Continuations' : Document(members \o more)'
    BY DEF Promising
  <1> DEFINE F == [key : Keys, value : {"fits"}]
             ms == members' \o more
             p == Len(members) + 1
  <1>3. more \in Seq(AnyMember)
    <2>1. PICK n \in 0..Cardinality(Keys) : more \in [1..n -> F]
      BY <1>1, <1>2 DEF Continuations
    <2>2. n \in Nat
      BY KeysAssumption, FS_CardinalityType
    <2>3. F \subseteq AnyMember
      BY DEF AnyMember, Members, Values
    <2>4. more \in [1..n -> AnyMember]
      BY <2>1, <2>3
    <2>. QED
      BY <2>2, <2>4, SeqDef
  <1>4. /\ members' \in Seq(AnyMember) /\ Len(members) \in Nat /\ Len(members') = p
        /\ \A i \in 1..Len(members) : members'[i] = members[i]
        /\ members'[p] = m
    BY <1>1, Appended
  <1>5. /\ Len(more) \in Nat /\ Len(ms) = p + Len(more)
        /\ \A i \in 1..p : i \in 1..Len(ms) /\ ms[i] = members'[i]
    BY <1>3, <1>4, ConcatProperties, LenProperties
  <1>6. Len(ms) = Cardinality(Keys) /\ \A k \in Keys : \E n \in 1..Len(ms) : ms[n] = Fit(k)
    BY <1>1, <1>2 DEF Document, Fit
  <1>7. p \in 1..Len(ms) /\ ms[p] = m
    BY <1>4, <1>5
  <1>8. CASE m.key \in Seen /\ m.key \in Keys /\ m.value = "fits"
    <2>1. PICK q \in 1..Len(members) : members[q] = Fit(m.key)
      BY <1>1, <1>8, SeenCount
    <2>2. q # p /\ q \in 1..Len(ms) /\ ms[q] = Fit(m.key)
      BY <1>4, <1>5, <2>1
    <2>3. m = Fit(m.key)
      BY <1>8 DEF Members, Fit
    <2> HIDE DEF ms, p
    <2>4. Covers(ms, p)
      <3> SUFFICES ASSUME NEW k \in Keys PROVE \E n \in 1..Len(ms) : n # p /\ ms[n] = Fit(k)
        BY DEF Covers
      <3>1. PICK n \in 1..Len(ms) : ms[n] = Fit(k)
        BY <1>6
      <3>2. n = p => Fit(k) = Fit(m.key)
        BY <1>7, <2>3, <3>1
      <3>. QED
        BY <2>2, <3>1, <3>2
    <2>. QED
      BY <1>6, <1>7, <2>4, NoneToSpare
  <1>9. CASE ~(m.key \in Keys /\ m.value = "fits")
    <2>1. \A k \in Keys : m # Fit(k)
      BY <1>9 DEF Fit
    <2> HIDE DEF ms, p
    <2>2. Covers(ms, p)
      BY <1>6, <1>7, <2>1 DEF Covers
    <2>. QED
      BY <1>6, <1>7, <2>2, NoneToSpare
  <1>. QED
    BY <1>8, <1>9 DEF GoodMember

LEMMA ReadMemberKeeps ==
    ASSUME DecoderInv, NEW m \in Members, ReadMember(m)
    PROVE  DecoderInv'
  <1>1. Reading /\ Typed /\ Distinct
    BY DEF DecoderInv, Reading, ReadMember, InputRead
  <1>2. /\ members' \in Seq(AnyMember) /\ Len(members) \in Nat /\ Len(members') = Len(members) + 1
        /\ \A i \in 1..Len(members) : members'[i] = members[i]
        /\ members'[Len(members) + 1] = m
    BY <1>1, Appended DEF ReadMember
  <1>3. Typed' /\ Positions' /\ RetryRead'
    BY <1>1, <1>2 DEF ReadMember, Reading, Typed, Positions, RetryRead
  <1>4. CASE GoodMember(m)
    <2>1. m = Fit(m.key) /\ m.key \in Keys /\ \A i \in 1..Len(members) : members[i].key # m.key
      BY <1>4 DEF GoodMember, Members, Fit, Seen
    <2>2. \A i \in 1..Len(members') : i \in 1..Len(members) \/ i = Len(members) + 1
      BY <1>2
    <2>3. \A i \in 1..Len(members') :
            members'[i].key \in Keys /\ members'[i] = Fit(members'[i].key)
      BY <1>1, <1>2, <2>1, <2>2 DEF Distinct
    <2>4. \A i, j \in 1..Len(members') : members'[i].key = members'[j].key => i = j
      BY <1>1, <1>2, <2>1, <2>2 DEF Distinct
    <2>. QED
      BY <1>3, <1>4, <2>3, <2>4 DEF ReadMember, DecoderInv, Reading, InputRead, Distinct
  <1>5. CASE ~GoodMember(m)
    BY <1>1, <1>3, <1>5, BadMember DEF ReadMember, DecoderInv, Reading, InputRead
  <1>. QED
    BY <1>4, <1>5

LEMMA ReadGenerationKeeps ==
    ASSUME DecoderInv, NEW m \in RetryMembers, ReadGeneration(m)
    PROVE  DecoderInv'
  <1>1. Reading /\ Typed /\ members = <<>> /\ members' = <<m>> /\ m \in AnyMember
    BY DEF DecoderInv, Reading, ReadGeneration, RetryRead, AnyMember
  <1>2. Typed'
    <2>1. <<m>> \in Seq(AnyMember)
      BY <1>1
    <2>. QED
      BY <1>1, <2>1 DEF ReadGeneration, Typed
  <1>3. Positions' /\ RetryRead' /\ InputRead'
    BY <1>1 DEF ReadGeneration, Reading, Positions, RetryRead, InputRead, Generation, Fit
  <1>4. ASSUME m # Generation PROVE ~Promising'
    <2> SUFFICES ASSUME Promising' PROVE FALSE
      OBVIOUS
    <2>1. PICK more \in {<<>>, <<Generation>>} : <<m>> \o more = <<Generation>>
      BY <1>1 DEF Promising, Continuations, Document, ReadGeneration, Reading, Positions,
                  Generation, Fit
    <2>2. (<<m>> \o more)[1] = m
      BY <2>1
    <2>3. <<Generation>>[1] = Generation
      OBVIOUS
    <2>. QED
      BY <1>4, <2>1, <2>2, <2>3
  <1>. QED
    BY <1>2, <1>3, <1>4 DEF DecoderInv, Reading, ReadGeneration, Generation, Fit

LEMMA ReadEndKeeps ==
    ASSUME DecoderInv, NEW t \in {"}", "other"}, ReadEnd(t)
    PROVE  DecoderInv'
  <1>1. Reading /\ Typed /\ members' = members /\ Seen' = Seen
    BY DEF DecoderInv, Reading, ReadEnd, Seen
  <1>2. Typed' /\ Positions' /\ RetryRead'
    BY <1>1 DEF ReadEnd, Reading, Typed, Positions, RetryRead
  <1>3. InputRead'
    BY <1>1 DEF ReadEnd, Reading, InputRead, RetryRead, Distinct, Complete
  <1>4. ASSUME dpc' = "invalid" PROVE ~Promising'
    <2> SUFFICES ASSUME Promising' PROVE FALSE
      OBVIOUS
    <2>1. t = "}" /\ end' = "}"
      BY DEF ReadEnd, Promising
    <2>2. Document(members)'
      <3>1. Continuations' = {<<>>}
        BY <2>1 DEF Continuations
      <3>2. members' \o <<>> = members'
        BY <1>2, ConcatEmptySeq DEF Typed
      <3>. QED
        BY <3>1, <3>2 DEF Promising
    <2>3. CASE kind = "retry"
      <3>1. members = <<>>
        BY <1>1, <1>4, <2>1, <2>3 DEF ReadEnd, Complete, Reading, RetryRead
      <3>2. members = <<Generation>>
        BY <1>1, <2>2, <2>3 DEF ReadEnd, Document, Generation, Fit
      <3>. QED
        BY <3>1, <3>2, NoMemberYet
    <2>4. CASE kind = "input"
      <3>1. Cardinality(Seen) # Cardinality(Keys) /\ Distinct
        BY <1>1, <1>4, <2>1, <2>4 DEF ReadEnd, Complete, Reading, InputRead, RetryRead
      <3>2. \A k \in Keys : \E n \in 1..Len(members) : members[n] = [key |-> k, value |-> "fits"]
        BY <1>1, <2>2, <2>4 DEF ReadEnd, Document
      <3>3. Keys \subseteq Seen
        <4> SUFFICES ASSUME NEW k \in Keys PROVE k \in Seen
          OBVIOUS
        <4>1. PICK n \in 1..Len(members) : members[n] = [key |-> k, value |-> "fits"]
          BY <3>2
        <4>2. [key |-> k, value |-> "fits"].key = k
          OBVIOUS
        <4>3. members[n].key = k
          BY <4>1, <4>2
        <4>. QED
          BY <4>3 DEF Seen
      <3>4. Seen \subseteq Keys
        BY <1>1, <3>1, SeenCount
      <3>5. Seen = Keys
        BY <3>3, <3>4
      <3>. QED
        BY <3>1, <3>5
    <2>. QED
      BY <1>1, <2>3, <2>4 DEF Typed
  <1>. QED
    BY <1>2, <1>3, <1>4 DEF DecoderInv, Reading

LEMMA DecoderNext == DecoderInv /\ [Next]_vars => DecoderInv'
  <1> SUFFICES ASSUME DecoderInv, [Next]_vars PROVE DecoderInv'
    OBVIOUS
  <1>1. CASE UNCHANGED vars
    <2>1. Typed' /\ Positions' /\ RetryRead'
      BY <1>1 DEF vars, DecoderInv, Reading, Typed, Positions, RetryRead
    <2>2. InputRead'
      BY <1>1 DEF vars, DecoderInv, Reading, InputRead, Distinct, Seen
    <2>3. Promising' = Promising
      BY <1>1 DEF vars, Promising, Continuations, Document
    <2>. QED
      BY <1>1, <2>1, <2>2, <2>3 DEF vars, DecoderInv, Reading
  <1>2. CASE Start
    <2>1. Typed' /\ Positions' /\ RetryRead'
      BY <1>2 DEF Start, DecoderInv, Reading, Typed, Positions, RetryRead
    <2>2. InputRead'
      BY <1>2 DEF Start, DecoderInv, Reading, InputRead, Distinct, Seen
    <2>. QED
      BY <1>2, <2>1, <2>2 DEF Start, DecoderInv, Reading, Promising
  <1>3. ASSUME NEW t \in {"EOF", "other"}, ReadRest(t) PROVE DecoderInv'
    <2>1. Typed' /\ Positions' /\ RetryRead'
      BY <1>3 DEF ReadRest, DecoderInv, Reading, Typed, Positions, RetryRead
    <2>2. InputRead'
      BY <1>3 DEF ReadRest, DecoderInv, Reading, InputRead, Distinct, Seen
    <2>. QED
      BY <1>3, <2>1, <2>2 DEF ReadRest, DecoderInv, Reading, Promising
  <1>. QED
    BY <1>1, <1>2, <1>3, ReadMemberKeeps, ReadGenerationKeeps, ReadEndKeeps DEF Next

\* decodeInput and decodeRetry accept exactly the documents, and refuse a body at
\* the first token after which no document can follow.
THEOREM OnlyDocumentsDecode == Spec => []DecodesDocuments
  <1>1. DecoderInv => DecodesDocuments
    BY ReadingIsPromising DEF DecoderInv, DecodesDocuments
  <1>. QED
    BY <1>1, DecoderInit, DecoderNext, PTL DEF Spec
=============================================================================
