------------------------- MODULE ConversationProofs -------------------------
(***************************************************************************)
(* Proofs about Conversation: that its state keeps its types, that what    *)
(* add_*() has returned for is in the files whatever happens later;        *)
(* that what is shown to the LLM between two calls is stored; and that     *)
(* what the LLM is sent is well formed.                                    *)
(*                                                                         *)
(* The argument: a message that is shown is in the files, unless the call  *)
(* under way is about to write it, or it shares its number with another    *)
(* one.  A compaction deletes by number, so that this needs the numbers to *)
(* rise from message to message; a resumed session shows exactly what is   *)
(* in the files, in that order; and that the next number is beyond all of  *)
(* the files depends on when the cursor is written.                        *)
(*                                                                         *)
(* For the view: when a result comes behind its call, with nothing but     *)
(* results between them, and no call has two, then the repair leaves each  *)
(* call with one result and each result with its call (PairedIsWellFormed).*)
(* That they come so holds in memory and in the files, and among all that  *)
(* either holds, since messages are made in that order and both keep it.   *)
(***************************************************************************)
EXTENDS Conversation, FiniteSetTheorems, SequenceTheorems, WellFoundedInduction, TLAPS

----------------------------------------------------------------------------
(* The inductive invariant.                                                *)

\* What a cursor and a file operation are.
Cursors == [nextSeq : Nat, outputs : SUBSET OutputKeys]

Ops == {WritePart(m) : m \in Message} \cup {WriteMeta} \cup {WriteCursor(c) : c \in Cursors}
         \cup {Delete(n) : n \in Int}

\* No number is less than -1, and -1 is a summary's.
Numbered(m) == m.seq >= -1 /\ (m.seq = -1 => m.kind = "summary" /\ m.calls = {})

\* The types: of the memory, of the files, of the rest.
MemInv ==
  /\ messages \in Seq(Message) /\ nextSeq \in Nat /\ open \in Seq(CallIds)
  /\ values \subseteq OutputKeys
  /\ \A i \in DOMAIN messages : Numbered(messages[i]) /\ (messages[i].seq = -1 => i = 1)

DiskInv ==
  /\ parts \in [DOMAIN parts -> Message]
  /\ \E b \in Nat : DOMAIN parts \subseteq -1..b
  /\ \A s \in DOMAIN parts : parts[s].seq = s /\ Numbered(parts[s])
  /\ cursor = NoCursor \/ cursor \in Cursors

CountInv ==
  /\ {up, metaDone, rewriting, meta, restarted} \subseteq BOOLEAN
  /\ outputsSet \subseteq OutputKeys
  /\ node \in 1..MaxNodes /\ made \in 0..MaxMessages
  /\ compacts \in 0..MaxCompacts /\ stops \in 0..MaxStops
  /\ acked \subseteq 1..made /\ lost \subseteq 1..made /\ doubled \subseteq 1..MaxMessages
  /\ adding \in 0..made /\ adding \notin acked

TypeInv == MemInv /\ DiskInv /\ CountInv

\* The places of the operations of a kind among those to do; the message is to
\* be written.
Places(op)   == {i \in DOMAIN todo : todo[i].op = op}
IsPending(m) == \E i \in Places("part") : todo[i].part = m

\* The call under way: files are deleted and metadata written first, and only by
\* a call that replaces what is in the files; a call that does not writes the
\* file of the message it adds; what is written is shown; a lost cursor is
\* written before an output is read from it; without metadata nothing that was
\* acknowledged is still expected.
CallInv ==
  /\ todo \in Seq(Ops)
  /\ ~up => todo = <<>> /\ messages = <<>> /\ open = <<>>
  /\ todo = <<>> => adding = 0 /\ ~rewriting
  /\ \A i \in Places("delete") \cup Places("meta") : i = 1 /\ rewriting
  /\ \A i \in Places("part") : Numbered(todo[i].part) /\ \E j \in DOMAIN messages : messages[j] = todo[i].part
  /\ ~rewriting => \A i \in Places("part") : Stands(todo[i].part) = {adding}
  /\ open # <<>> /\ cursor = NoCursor => Places("cursor") # {}
  /\ adding # 0 => /\ adding \in Covered(messages)
                   /\ ~meta => Places("meta") # {} /\ Len(todo) > 1
  /\ up /\ metaDone /\ ~meta => Places("meta") # {}
  /\ ~meta => acked \subseteq lost

\* The numbers of the messages rise; where they do not, two messages share one.
RisingInv ==
  /\ \A i, j \in DOMAIN messages :
       i < j => /\ messages[i].seq <= messages[j].seq
                /\ messages[i].seq = messages[j].seq =>
                     Stands(messages[i]) \subseteq doubled /\ Stands(messages[j]) \subseteq doubled
  /\ \A i \in DOMAIN messages : messages[i].seq <= nextSeq

\* What is known of the numbers of the files.
FilesInv ==
  /\ up => \A s \in DOMAIN parts : s <= nextSeq
  /\ cursor # NoCursor => \A s \in DOMAIN parts : s <= cursor.nextSeq

\* And of the cursor, written or to be written.
CursorInv ==
  /\ cursor # NoCursor => \A i \in Places("part") : todo[i].part.seq <= cursor.nextSeq
  /\ cursor # NoCursor /\ up /\ Places("cursor") = {} => cursor.nextSeq >= nextSeq
  /\ \A i \in Places("cursor") : todo[i].cursor.nextSeq >= nextSeq

OrderInv == RisingInv /\ FilesInv /\ CursorInv

\* The file of m is there, and is not about to be deleted.
Safe(m) ==
  /\ m.seq \in DOMAIN parts /\ parts[m.seq] = m
  /\ \A i \in Places("delete") : m.seq >= todo[i].before

\* What is shown is stored, or about to be; what was acknowledged is shown, or
\* stored.
StoreInv ==
  /\ \A i \in DOMAIN messages :
       Stands(messages[i]) \subseteq doubled \/ IsPending(messages[i]) \/ Safe(messages[i])
  /\ up  => acked \ (lost \cup doubled) \subseteq Covered(messages)
  /\ ~up => acked \ (lost \cup doubled) \subseteq OnDisk(parts)

\* The inductive invariant.  Once the conversation has begun anew over the files
\* of its past, nothing is known of the numbers.
StoredInv == ~restarted => OrderInv /\ StoreInv

IInv == TypeInv /\ CallInv /\ StoredInv

\* The messages that memory or the files hold.
Known == {messages[i] : i \in DOMAIN messages} \cup {parts[s] : s \in DOMAIN parts}

\* What a message is like: made before now, a result after its call.
Formed(m) ==
  /\ m.id <= made
  /\ m.kind = "summary" <=> m.id = 0
  /\ m.kind = "tool" <=> m.call # NoCall
  /\ m.kind = "tool" => m.call[1] < m.id
  /\ m.calls # {} => m.kind = "assistant"
  /\ \A c \in m.calls : c[1] = m.id

\* Of two messages: no call has two results, and between a call and its result
\* only results were made.
Ordered(a, b) ==
  /\ a.kind = "tool" /\ b.kind = "tool" /\ a.call = b.call => a.id = b.id
  /\ a.kind = "tool" /\ a.call[1] < b.id /\ b.id < a.id => b.kind = "tool"

\* Of the calls that wait for their results.
OpenInv ==
  \A k \in DOMAIN open :
     /\ open[k][1] <= made
     /\ \A j \in DOMAIN open : open[j] = open[k] => j = k
     /\ \A m \in Known : m.call # open[k] /\ (open[k][1] < m.id => m.kind = "tool")

\* What is known of the messages.
KnownInv ==
  /\ \A a \in Known : Formed(a)
  /\ \A a, b \in Known : Ordered(a, b)
  /\ OpenInv

\* The file with number s is not about to be deleted.
Stays(s) == \A i \in Places("delete") : s >= todo[i].before

\* The messages are in the order in which they were made: in memory, in the
\* files, and between memory and the files that stay.  A summary comes first.
MemoryRank == \A i, j \in DOMAIN messages : i < j => messages[i].id < messages[j].id
FilesRank  == \A s, t \in DOMAIN parts : s < t => parts[s].id < parts[t].id
BothRank ==
  \A s \in DOMAIN parts, j \in DOMAIN messages :
     Stays(s) => /\ messages[j].seq < s => messages[j].id < parts[s].id
                 /\ messages[j].seq > s => messages[j].id > parts[s].id
                 /\ messages[j].seq = s /\ parts[s].id = 0 => messages[j].id = 0 \/ IsPending(messages[j])
SummaryRank ==
  \A i, j \in DOMAIN messages :
     messages[i].id = 0 /\ IsPending(messages[i]) /\ messages[j].id # 0 => messages[j].seq > messages[i].seq

\* The order, all in all.
RankInv == MemoryRank /\ FilesRank /\ BothRank /\ SummaryRank

\* The inductive invariant that ViewWellFormed needs besides.  It, too, is lost
\* with the metadata.
ShownInv == ~restarted => KnownInv /\ RankInv

----------------------------------------------------------------------------
(* Subsequences.                                                           *)

\* The members up to k.
UpTo(K, k) == {j \in K : j <= k}

\* A least number with a property exists.
LEMMA Least ==
  ASSUME NEW S \in SUBSET Nat, S # {} PROVE \E m \in S : \A k \in S : m <= k
<1> DEFINE Less == {ss \in Nat \X Nat : ss[1] < ss[2]}
<1>0. IsWellFoundedOn(Less, Nat)
  BY NatLessThanWellFounded DEF OpToRel
<1> HIDE DEF Less
<1>1. PICK m \in S : \A k \in S : ~(<<k, m>> \in Less)
  BY <1>0, WFMin
<1>2. ASSUME NEW k \in S PROVE m <= k
  <2>1. <<k, m>> \in Nat \X Nat /\ <<k, m>>[1] = k /\ <<k, m>>[2] = m
    OBVIOUS
  <2>2. ~(k < m)
    BY <1>1, <2>1 DEF Less
  <2> QED BY <2>2
<1> QED BY <1>2

\* Also from a bound that is not 0.
LEMMA LeastFrom ==
  ASSUME NEW a \in Int, NEW S \in SUBSET Int, S # {}, \A k \in S : a <= k
  PROVE  \E m \in S : \A k \in S : m <= k
<1> DEFINE T == {k - a : k \in S}
<1>1. T \in SUBSET Nat /\ T # {}
  <2>1. ASSUME NEW k \in S PROVE k - a \in Nat
    <3>1. k \in Int /\ a <= k
      OBVIOUS
    <3> QED BY <3>1
  <2> QED BY <2>1
<1> HIDE DEF T
<1>2. PICK t \in T : \A u \in T : t <= u
  BY <1>1, Least
<1>3. PICK m \in S : t = m - a
  BY DEF T
<1>4. ASSUME NEW k \in S PROVE m <= k
  <2>1. t <= k - a
    BY <1>2 DEF T
  <2> QED BY <1>3, <2>1
<1> QED BY <1>4

\* Sets of numbers between two bounds are finite.
LEMMA RangeFinite ==
  ASSUME NEW b \in Nat, NEW K \in SUBSET (-1..b) PROVE IsFiniteSet(K) /\ Cardinality(K) \in Nat
<1>1. IsFiniteSet(-1..b)
  BY FS_Interval, -1 \in Int, b \in Int
<1>2. IsFiniteSet(K)
  BY <1>1, FS_Subset
<1> QED BY <1>2, FS_CardinalityType

\* There is an i-th smallest.
LEMMA NthIs ==
  ASSUME NEW b \in Nat, NEW K \in SUBSET (-1..b), NEW i \in 1..Cardinality(K)
  PROVE  Nth(K, i) \in K /\ Cardinality(UpTo(K, Nth(K, i))) = i
<1> DEFINE Enough == {k \in -1..b : Cardinality(UpTo(K, k)) >= i}
<1>0. IsFiniteSet(K) /\ Cardinality(K) \in Nat
  BY RangeFinite
<1>1. UpTo(K, b) = K /\ UpTo(K, -2) = {}
  <2>1. \A j \in K : j \in Int /\ j <= b /\ ~(j <= -2)
    OBVIOUS
  <2> QED BY <2>1 DEF UpTo
<1>2. b \in Enough /\ Enough \in SUBSET Int /\ \A k \in Enough : -1 <= k
  BY <1>0, <1>1
<1>3. PICK m \in Enough : \A k \in Enough : m <= k
  <2> HIDE DEF Enough
  <2>1. Enough # {} /\ -1 \in Int
    BY <1>2
  <2> QED BY <1>2, <2>1, LeastFrom
<1>4. m \in -1..b /\ Cardinality(UpTo(K, m)) >= i
  OBVIOUS
<1>5. /\ UpTo(K, m) = UpTo(K, m - 1) \cup ({m} \cap K)
      /\ m \notin UpTo(K, m - 1)
  <2>1. ASSUME NEW j \in K PROVE j <= m <=> (j <= m - 1 \/ j = m)
    BY <1>4
  <2>2. ~(m <= m - 1)
    BY <1>4
  <2> QED BY <2>1, <2>2 DEF UpTo
<1>6. ~(Cardinality(UpTo(K, m - 1)) >= i)
  <2>1. CASE m = -1
    <3>1. UpTo(K, m - 1) = {}
      BY <1>1, <2>1
    <3> QED BY <3>1, FS_EmptySet
  <2>2. CASE m # -1
    <3>1. m - 1 \in -1..b /\ ~(m <= m - 1)
      BY <1>4, <2>2
    <3> QED BY <1>3, <3>1
  <2> QED BY <2>1, <2>2
<1>7. /\ IsFiniteSet(UpTo(K, m - 1)) /\ Cardinality(UpTo(K, m - 1)) \in Nat
      /\ Cardinality(UpTo(K, m)) \in Nat
  <2>1. UpTo(K, m - 1) \in SUBSET (-1..b) /\ UpTo(K, m) \in SUBSET (-1..b)
    BY DEF UpTo
  <2> QED BY <2>1, RangeFinite
<1>8. m \in K
  <2>1. SUFFICES ASSUME m \notin K PROVE FALSE
    OBVIOUS
  <2>2. UpTo(K, m) = UpTo(K, m - 1)
    BY <1>5, <2>1
  <2> QED BY <1>4, <1>6, <2>2
<1>9. Cardinality(UpTo(K, m)) = Cardinality(UpTo(K, m - 1)) + 1
  <2>1. UpTo(K, m) = UpTo(K, m - 1) \cup {m}
    BY <1>5, <1>8
  <2> QED BY <1>5, <1>7, <2>1, FS_AddElement
<1>10. m \in K /\ Cardinality(UpTo(K, m)) = i
  BY <1>4, <1>6, <1>7, <1>8, <1>9, <1>0
<1> QED BY <1>10 DEF Nth, UpTo

\* More members up to a larger one.
LEMMA UpToOrder ==
  ASSUME NEW b \in Nat, NEW K \in SUBSET (-1..b), NEW j \in K, NEW k \in K, j < k
  PROVE  Cardinality(UpTo(K, j)) < Cardinality(UpTo(K, k))
<1>1. UpTo(K, k) \in SUBSET (-1..b) /\ UpTo(K, j) \in SUBSET UpTo(K, k)
  <2>1. ASSUME NEW i \in K, i <= j PROVE i <= k
    <3>1. i \in Int /\ j \in Int /\ k \in Int
      OBVIOUS
    <3> QED BY <2>1, <3>1
  <2> QED BY <2>1 DEF UpTo
<1>2. k \in UpTo(K, k) /\ k \notin UpTo(K, j)
  BY DEF UpTo
<1>3. IsFiniteSet(UpTo(K, k)) /\ Cardinality(UpTo(K, k)) \in Nat
  BY <1>1, RangeFinite
<1>4. /\ Cardinality(UpTo(K, j)) <= Cardinality(UpTo(K, k))
      /\ Cardinality(UpTo(K, j)) # Cardinality(UpTo(K, k))
  BY <1>1, <1>2, <1>3, FS_Subset
<1>5. Cardinality(UpTo(K, j)) \in Nat
  <2>1. UpTo(K, j) \in SUBSET (-1..b)
    BY DEF UpTo
  <2> QED BY <2>1, RangeFinite
<1> QED BY <1>3, <1>4, <1>5

\* The smallest come in order.
LEMMA NthOrder ==
  ASSUME NEW b \in Nat, NEW K \in SUBSET (-1..b),
         NEW i \in 1..Cardinality(K), NEW j \in 1..Cardinality(K), i < j
  PROVE  Nth(K, i) < Nth(K, j)
<1>1. /\ Nth(K, i) \in K /\ Cardinality(UpTo(K, Nth(K, i))) = i
      /\ Nth(K, j) \in K /\ Cardinality(UpTo(K, Nth(K, j))) = j
  BY NthIs
<1>2. i \in Int /\ j \in Int /\ Nth(K, i) \in Int /\ Nth(K, j) \in Int
  <2>1. \A k \in K : k \in Int
    OBVIOUS
  <2>2. Cardinality(K) \in Nat
    BY RangeFinite
  <2>3. i \in Int /\ j \in Int
    BY <2>2
  <2> QED BY <1>1, <2>1, <2>3
<1>3. Nth(K, i) # Nth(K, j)
  BY <1>1, <1>2
<1>4. ~(Nth(K, j) < Nth(K, i))
  <2>1. SUFFICES ASSUME Nth(K, j) < Nth(K, i) PROVE FALSE
    OBVIOUS
  <2>2. Cardinality(UpTo(K, Nth(K, j))) < Cardinality(UpTo(K, Nth(K, i)))
    BY <1>1, <2>1, UpToOrder
  <2> QED BY <1>1, <1>2, <2>2
<1> QED BY <1>2, <1>3, <1>4

\* Every member is the i-th smallest for some i.
LEMMA NthAll ==
  ASSUME NEW b \in Nat, NEW K \in SUBSET (-1..b), NEW k \in K
  PROVE  \E i \in 1..Cardinality(K) : Nth(K, i) = k
<1> DEFINE i == Cardinality(UpTo(K, k))
<1>1. IsFiniteSet(K) /\ Cardinality(K) \in Nat
  BY RangeFinite
<1>2. UpTo(K, k) \in SUBSET K /\ UpTo(K, k) \in SUBSET (-1..b) /\ k \in UpTo(K, k)
  <2>1. k <= k
    OBVIOUS
  <2> QED BY <2>1 DEF UpTo
<1>3. IsFiniteSet(UpTo(K, k)) /\ i \in Nat /\ i <= Cardinality(K)
  BY <1>1, <1>2, FS_Subset, RangeFinite
<1>4. i # 0
  BY <1>2, <1>3, FS_EmptySet
<1>5. i \in 1..Cardinality(K)
  BY <1>1, <1>3, <1>4
<1> HIDE DEF i
<1>6. Nth(K, i) \in K /\ Cardinality(UpTo(K, Nth(K, i))) = i
  BY <1>5, NthIs
<1>7. ~(Nth(K, i) < k) /\ ~(k < Nth(K, i))
  <2>1. Cardinality(UpTo(K, k)) = i /\ ~(i < i)
    BY <1>3 DEF i
  <2>2. ASSUME Nth(K, i) < k PROVE FALSE
    <3>1. Cardinality(UpTo(K, Nth(K, i))) < Cardinality(UpTo(K, k))
      BY <1>6, <2>2, UpToOrder
    <3> QED BY <1>6, <2>1, <3>1
  <2>3. ASSUME k < Nth(K, i) PROVE FALSE
    <3>1. Cardinality(UpTo(K, k)) < Cardinality(UpTo(K, Nth(K, i)))
      BY <1>6, <2>3, UpToOrder
    <3> QED BY <1>6, <2>1, <3>1
  <2> QED BY <2>2, <2>3
<1>8. Nth(K, i) \in Int /\ k \in Int
  <2>1. \A j \in K : j \in Int
    OBVIOUS
  <2> QED BY <1>6, <2>1
<1>9. Nth(K, i) = k
  BY <1>7, <1>8
<1> QED BY <1>5, <1>9

\* A subsequence holds what is at the places, in their order.
LEMMA SubsequenceIs ==
  ASSUME NEW b \in Nat, NEW K \in SUBSET (-1..b), NEW S, NEW s, \A k \in K : s[k] \in S
  PROVE  /\ Subsequence(s, K) \in Seq(S)
         /\ Len(Subsequence(s, K)) = Cardinality(K)
         /\ \A i \in 1..Cardinality(K) : Subsequence(s, K)[i] = s[Nth(K, i)] /\ Nth(K, i) \in K
<1>1. Cardinality(K) \in Nat
  BY RangeFinite
<1>2. ASSUME NEW i \in 1..Cardinality(K) PROVE Nth(K, i) \in K /\ s[Nth(K, i)] \in S
  BY NthIs
<1>3. Subsequence(s, K) \in [1..Cardinality(K) -> S]
  BY <1>2 DEF Subsequence
<1>4. Subsequence(s, K) \in Seq(S) /\ Len(Subsequence(s, K)) = Cardinality(K)
  BY <1>1, <1>3
<1> QED BY <1>2, <1>4 DEF Subsequence

\* The greatest is one.
LEMMA MaxIs ==
  ASSUME NEW b \in Nat, NEW K \in SUBSET (-1..b), K # {}
  PROVE  Max(K) \in K /\ \A k \in K : k <= Max(K)
<1> DEFINE T == {b - k : k \in K}
<1>1. T \in SUBSET Nat /\ T # {}
  OBVIOUS
<1> HIDE DEF T
<1>2. PICK t \in T : \A u \in T : t <= u
  BY <1>1, Least
<1>3. PICK m \in K : t = b - m
  BY DEF T
<1>4. ASSUME NEW k \in K PROVE m >= k
  <2>1. t <= b - k
    BY <1>2 DEF T
  <2> QED BY <1>3, <2>1
<1>5. Max(K) \in K /\ \A k \in K : Max(K) >= k
  BY <1>4 DEF Max
<1> QED BY <1>5

\* The recent messages begin behind the first place, and not with a result.
LEMMA SplitIs ==
  ASSUME NEW ms \in Seq(Message), NEW keep \in Nat, keep < Len(ms)
  PROVE  Split(ms, keep) \in 1..Len(ms)
<1> DEFINE cut == Len(ms) - keep
           S == {i \in cut..Len(ms) : i < Len(ms) => ms[i + 1].kind # "tool"}
           Begins(i) == /\ \A j \in cut + 1..i : ms[j].kind = "tool"
                        /\ i < Len(ms) => ms[i + 1].kind # "tool"
<1>1. Len(ms) \in Nat /\ cut \in 1..Len(ms)
  OBVIOUS
<1> HIDE DEF cut
<1>2. S \in SUBSET Nat /\ Len(ms) \in S
  BY <1>1
<1>3. PICK i \in S : \A k \in S : i <= k
  <2>1. S # {}
    BY <1>2
  <2> HIDE DEF S
  <2> QED BY <1>2, <2>1, Least
<1>4. ASSUME NEW j \in cut + 1..i PROVE ms[j].kind = "tool"
  <2>1. i \in cut..Len(ms)
    OBVIOUS
  <2>2. j - 1 \in cut..Len(ms) /\ ~(i <= j - 1) /\ j - 1 < Len(ms) /\ (j - 1) + 1 = j
    BY <1>1, <2>1
  <2>3. j - 1 \notin S
    BY <1>3, <2>2
  <2> QED BY <2>2, <2>3
<1>5. i \in cut..Len(ms) /\ Begins(i)
  BY <1>3, <1>4
<1>6. Split(ms, keep) = CHOOSE k \in cut..Len(ms) : Begins(k)
  BY DEF Split, cut
<1>7. Split(ms, keep) \in cut..Len(ms)
  <2> HIDE DEF Begins
  <2> QED BY <1>5, <1>6
<1> QED BY <1>1, <1>7

----------------------------------------------------------------------------
(* Constants, file operations, messages.                                   *)

\* The constants.
LEMMA LimitsAreNumbers ==
  /\ MaxCalls \in Nat /\ MaxMessages \in Nat /\ MaxCompacts \in Nat /\ MaxStops \in Nat
  /\ MaxNodes \in Nat \ {0} /\ Keeps \subseteq Nat
BY ConversationAssumption

\* The lesser of two.
LEMMA MinOfTwo == ASSUME NEW a \in Int, NEW b \in Int PROVE Min({a, b}) = IF a <= b THEN a ELSE b
BY DEF Min

\* What an operation is.
LEMMA OpIs ==
  ASSUME NEW f \in Ops
  PROVE  \/ f.op = "part" /\ f.part \in Message /\ f = WritePart(f.part)
         \/ f.op = "meta"
         \/ f.op = "cursor" /\ f.cursor \in Cursors
         \/ f.op = "delete" /\ f.before \in Int
BY DEF Ops, WritePart, WriteMeta, WriteCursor, Delete

\* And that they can be told apart.
LEMMA OpsAre ==
  /\ \A m \in Message : WritePart(m) \in Ops /\ WritePart(m).op = "part" /\ WritePart(m).part = m
  /\ WriteMeta \in Ops /\ WriteMeta.op = "meta"
  /\ \A c \in Cursors : WriteCursor(c) \in Ops /\ WriteCursor(c).op = "cursor" /\ WriteCursor(c).cursor = c
  /\ \A n \in Int : Delete(n) \in Ops /\ Delete(n).op = "delete" /\ Delete(n).before = n
BY DEF Ops, WritePart, WriteMeta, WriteCursor, Delete

\* The cursor that the write of a message leaves.
LEMMA OnlySeqIs == ASSUME NEW n \in Nat PROVE OnlySeq(n) \in Cursors /\ OnlySeq(n).nextSeq = n
BY DEF OnlySeq, Cursors

----------------------------------------------------------------------------
(* What the operations do.                                                 *)

\* m is added.
Adds(m) ==
  /\ up /\ todo = <<>>
  /\ m \in Message /\ Numbered(m) /\ m.seq = nextSeq /\ Stands(m) = {made + 1}
  /\ messages' = Append(messages, m) /\ nextSeq' = nextSeq + 1
  /\ \/ /\ metaDone /\ ~rewriting'
        /\ todo' = <<WritePart(m), WriteCursor(OnlySeq(nextSeq + 1))>>
     \/ /\ rewriting' = TRUE
        /\ todo' = <<WriteMeta, WritePart(m), WriteCursor(OnlySeq(nextSeq + 1))>>
  /\ rewriting' \in BOOLEAN
  /\ metaDone' = TRUE
  /\ made < MaxMessages /\ made' = made + 1 /\ adding' = made + 1
  /\ doubled' = Doubled(m) /\ m.id = made + 1
  /\ UNCHANGED <<up, diskVars, compacts, stops, acked, lost, restarted>>

\* A message that is added.
LEMMA MessageIs ==
  ASSUME TypeInv, made < MaxMessages, NEW k \in Kinds, NEW calls \in SUBSET CallIds,
         NEW call \in CallIds \cup {NoCall}, NEW s \in Nat
  PROVE  LET m == [seq |-> s, kind |-> k, id |-> made + 1, calls |-> calls, call |-> call, covers |-> {}]
         IN m \in Message /\ Numbered(m) /\ Stands(m) = {made + 1} /\ m.id = made + 1 /\ m.seq = s
<1> DEFINE m == [seq |-> s, kind |-> k, id |-> made + 1, calls |-> calls, call |-> call, covers |-> {}]
<1>1. made \in Nat /\ made + 1 \in 0..MaxMessages /\ made + 1 # 0 /\ s \in Int
  BY LimitsAreNumbers DEF TypeInv, CountInv
<1>2. m \in Message
  BY <1>1 DEF Message
<1>3. m.seq = s /\ m.id = made + 1 /\ m.covers = {}
  OBVIOUS
<1> HIDE DEF m
<1>4. Numbered(m)
  BY <1>3 DEF Numbered
<1>5. Stands(m) = {made + 1}
  BY <1>1, <1>3 DEF Stands
<1> QED BY <1>2, <1>3, <1>4, <1>5 DEF m

\* The additions have one form.
LEMMA AddAdds ==
  ASSUME TypeInv, Idle, NEW k \in Kinds, NEW calls \in SUBSET CallIds, NEW call \in CallIds \cup {NoCall},
         Add(k, calls, call)
  PROVE  \E m : Adds(m) /\ UNCHANGED outputsSet
<1> DEFINE m == [seq |-> nextSeq, kind |-> k, id |-> made + 1, calls |-> calls, call |-> call, covers |-> {}]
<1>1. nextSeq \in Nat /\ metaDone \in BOOLEAN
  BY DEF TypeInv, MemInv, CountInv
<1>2. /\ made < MaxMessages /\ messages' = Append(messages, m) /\ nextSeq' = nextSeq + 1
      /\ todo' = Persist(m, nextSeq + 1) /\ metaDone' = TRUE /\ adding' = made + 1 /\ made' = made + 1
      /\ rewriting' = ~metaDone /\ doubled' = Doubled(m)
      /\ UNCHANGED <<up, diskVars, compacts, stops, acked, lost, restarted, outputsSet>>
  BY DEF Add
<1>3. m \in Message /\ Numbered(m) /\ Stands(m) = {made + 1} /\ m.id = made + 1 /\ m.seq = nextSeq
  BY <1>1, <1>2, MessageIs
<1> HIDE DEF m
<1>4. Adds(m)
  BY <1>1, <1>2, <1>3 DEF Adds, Persist, Idle
<1> QED BY <1>2, <1>4

\* They are that of a message of the user,
LEMMA AddUserAdds == ASSUME TypeInv, AddUser PROVE \E m : Adds(m) /\ UNCHANGED outputsSet
<1>1. Idle /\ Add("user", {}, NoCall)
  BY DEF AddUser
<1>2. "user" \in Kinds /\ {} \in SUBSET CallIds /\ NoCall \in CallIds \cup {NoCall}
  BY DEF Kinds
<1> QED BY <1>1, <1>2, AddAdds

\* that of an answer of the LLM,
LEMMA AddAssistantAdds ==
  ASSUME TypeInv, AddAssistant
  PROVE  (\E m : Adds(m) /\ UNCHANGED outputsSet) /\ open' \in Seq(CallIds)
<1>1. PICK n \in 0..MaxCalls :
        /\ Add("assistant", {made + 1} \X (1..n), NoCall)
        /\ open' = [k \in 1..n |-> <<made + 1, k>>]
  BY DEF AddAssistant
<1>2. made + 1 \in 1..MaxMessages /\ n \in Nat /\ \A k \in 1..n : k \in 1..MaxCalls
  BY <1>1, LimitsAreNumbers DEF TypeInv, CountInv, Add
<1>3. {made + 1} \X (1..n) \in SUBSET CallIds
  BY <1>2 DEF CallIds
<1>4. open' \in Seq(CallIds)
  <2>1. \A k \in 1..n : <<made + 1, k>> \in CallIds
    BY <1>2 DEF CallIds
  <2>2. open' \in [1..n -> CallIds]
    BY <1>1, <2>1
  <2> QED BY <1>2, <2>2
<1>5. "assistant" \in Kinds /\ NoCall \in CallIds \cup {NoCall} /\ Idle
  BY DEF Kinds, AddAssistant
<1> QED BY <1>1, <1>3, <1>4, <1>5, AddAdds

\* that of a result,
LEMMA AddToolResultAdds ==
  ASSUME TypeInv, AddToolResult
  PROVE  (\E m : Adds(m) /\ UNCHANGED outputsSet) /\ open' \in Seq(CallIds)
<1>1. Idle /\ open # <<>> /\ Add("tool", {}, Head(open)) /\ open' = Tail(open)
  BY DEF AddToolResult
<1>2. open \in Seq(CallIds)
  BY DEF TypeInv, MemInv
<1>3. Head(open) \in CallIds /\ Tail(open) \in Seq(CallIds)
  BY <1>1, <1>2, HeadTailProperties
<1>4. "tool" \in Kinds /\ {} \in SUBSET CallIds
  BY DEF Kinds
<1> QED BY <1>1, <1>3, <1>4, AddAdds

\* and that of the marker between two nodes.
LEMMA HandoverAdds == ASSUME TypeInv, Handover PROVE \E m : Adds(m) /\ outputsSet' = {}
<1> DEFINE m == [seq |-> nextSeq, kind |-> "user", id |-> made + 1, calls |-> {}, call |-> NoCall, covers |-> {}]
<1>1. nextSeq \in Nat
  BY DEF TypeInv, MemInv
<1>2. /\ Idle /\ made < MaxMessages /\ messages' = Append(messages, m) /\ nextSeq' = nextSeq + 1
      /\ todo' = <<WriteMeta, WritePart(m), WriteCursor(OnlySeq(nextSeq + 1))>>
      /\ doubled' = Doubled(m) /\ metaDone' = TRUE /\ rewriting' = TRUE
      /\ adding' = made + 1 /\ made' = made + 1 /\ outputsSet' = {}
      /\ UNCHANGED <<up, open, diskVars, compacts, stops, acked, lost, restarted>>
  BY DEF Handover
<1>3. "user" \in Kinds /\ {} \in SUBSET CallIds /\ NoCall \in CallIds \cup {NoCall}
  BY DEF Kinds
<1>4. m \in Message /\ Numbered(m) /\ Stands(m) = {made + 1} /\ m.id = made + 1 /\ m.seq = nextSeq
  BY <1>1, <1>2, <1>3, MessageIs
<1> HIDE DEF m
<1>5. Adds(m)
  BY <1>2, <1>4 DEF Adds, Idle
<1> QED BY <1>2, <1>5

----------------------------------------------------------------------------
(* Compactions.                                                            *)

\* A compaction: the summary m comes before the messages at the places g of what
\* there was, in their order; those from place r on are recent, and their files
\* stay, and the files of the others are written again.
Shortens(m, g, r) ==
  /\ up /\ todo = <<>> /\ open = <<>>
  /\ m \in Message /\ m.kind = "summary" /\ m.calls = {} /\ m.id = 0 /\ m.call = NoCall
  /\ messages' \in Seq(Message) /\ Len(messages') >= 1 /\ messages'[1] = m
  /\ g \in [2..Len(messages') -> DOMAIN messages]
  /\ \A i, j \in 2..Len(messages') : i < j => g[i] < g[j]
  /\ \A i \in 2..Len(messages') : messages'[i] = messages[g[i]]
  /\ Len(messages') > 1 => m.seq = messages'[2].seq - 1
  /\ Len(messages') > 1 => g[2] > 1 \/ messages[g[2]].calls # {} \/ messages[g[2]].kind = "tool"
  /\ Len(messages') = 1 => m.seq = nextSeq /\ nextSeq' = nextSeq + 1
  /\ nextSeq' \in {nextSeq, nextSeq + 1}
  /\ \A i \in DOMAIN messages :
       Stands(messages[i]) \subseteq Stands(m) \/ \E j \in 2..Len(messages') : g[j] = i
  /\ Stands(m) \subseteq Covered(messages)
  /\ r \in 2..Len(messages) + 1
  /\ \A i \in r..Len(messages) : \E j \in 2..Len(messages') : g[j] = i
  /\ todo' \in Seq(Ops) /\ Len(todo') >= 3
  /\ todo'[1] = Delete(IF r > Len(messages) THEN nextSeq' ELSE messages[r].seq)
  /\ todo'[2] = WritePart(m)
  /\ todo'[Len(todo')] = WriteCursor(OnlySeq(nextSeq'))
  /\ \A k \in 3..Len(todo') - 1 : \E i \in 2..Len(messages') : todo'[k] = WritePart(messages'[i])
  /\ \A i \in 2..Len(messages') :
       g[i] >= r \/ \E k \in 3..Len(todo') - 1 : todo'[k] = WritePart(messages'[i])
  /\ rewriting' = TRUE
  /\ compacts < MaxCompacts /\ compacts' = compacts + 1
  /\ UNCHANGED <<up, metaDone, open, values, adding, diskVars, node, made, stops, acked, lost,
                 doubled, restarted, outputsSet>>

\* A summary.
LEMMA SummaryIs ==
  ASSUME NEW s \in Int, NEW c \in SUBSET (1..MaxMessages)
  PROVE  LET m == [seq |-> s, kind |-> "summary", id |-> 0, calls |-> {}, call |-> NoCall, covers |-> c]
         IN /\ m \in Message /\ m.kind = "summary" /\ m.calls = {} /\ m.seq = s /\ Stands(m) = c
            /\ m.id = 0 /\ m.call = NoCall
<1> DEFINE m == [seq |-> s, kind |-> "summary", id |-> 0, calls |-> {}, call |-> NoCall, covers |-> c]
<1>1. 0 \in 0..MaxMessages /\ 0 \notin c
  BY LimitsAreNumbers
<1>2. m \in Message
  BY <1>1 DEF Message, Kinds
<1>3. m.id = 0 /\ m.covers = c /\ m.kind = "summary" /\ m.calls = {} /\ m.seq = s /\ m.call = NoCall
  OBVIOUS
<1> HIDE DEF m
<1>4. Stands(m) = c
  BY <1>1, <1>3 DEF Stands
<1> QED BY <1>2, <1>3, <1>4 DEF m

\* What messages stand for are messages.
LEMMA StandsType == ASSUME NEW m \in Message PROVE Stands(m) \subseteq 1..MaxMessages
<1>1. m.id \in 0..MaxMessages /\ m.covers \subseteq 1..MaxMessages
  BY DEF Message
<1> QED BY <1>1, LimitsAreNumbers DEF Stands

\* Also those of several.
LEMMA CoveredType ==
  ASSUME NEW ms, \A i \in DOMAIN ms : ms[i] \in Message PROVE Covered(ms) \subseteq 1..MaxMessages
BY StandsType DEF Covered

\* A message, and where the recent ones begin.
LEMMA SplitAt ==
  ASSUME TypeInv, messages # <<>>, NEW keep \in Keeps
  PROVE  /\ Len(messages) \in Nat
         /\ Split(messages, Min({keep, Len(messages) - 1})) \in 1..Len(messages)
<1>1. messages \in Seq(Message) /\ keep \in Nat
  BY LimitsAreNumbers DEF TypeInv, MemInv
<1>2. Len(messages) \in Nat /\ Len(messages) # 0
  BY <1>1
<1> DEFINE k == Min({keep, Len(messages) - 1})
<1>3. k \in Nat /\ k < Len(messages)
  BY <1>1, <1>2, MinOfTwo
<1> HIDE DEF k
<1>4. Split(messages, k) \in 1..Len(messages)
  BY <1>1, <1>3, SplitIs
<1> QED BY <1>2, <1>4 DEF k

\* The messages from a place on.
LEMMA RecentIs ==
  ASSUME TypeInv, NEW split \in 1..Len(messages)
  PROVE  LET recent == SubSeq(messages, split + 1, Len(messages))
         IN /\ recent \in Seq(Message) /\ Len(recent) = Len(messages) - split
            /\ \A i \in 1..Len(recent) : recent[i] = messages[split + i]
            /\ recent = <<>> <=> split = Len(messages)
<1> DEFINE recent == SubSeq(messages, split + 1, Len(messages))
<1>1. messages \in Seq(Message) /\ Len(messages) \in Nat /\ split \in Nat
  BY DEF TypeInv, MemInv
<1>2. \A i \in (split + 1)..Len(messages) : messages[i] \in Message
  BY <1>1
<1>3. /\ recent \in Seq(Message)
      /\ Len(recent) = IF split + 1 <= Len(messages) THEN Len(messages) - (split + 1) + 1 ELSE 0
      /\ \A i \in 1..Len(messages) - (split + 1) + 1 : recent[i] = messages[split + 1 + i - 1]
  BY <1>1, <1>2, SubSeqProperties
<1> HIDE DEF recent
<1>4. Len(recent) = Len(messages) - split
  BY <1>1, <1>3
<1>5. \A i \in 1..Len(recent) : recent[i] = messages[split + i]
  <2>1. SUFFICES ASSUME NEW i \in 1..Len(recent) PROVE recent[i] = messages[split + i]
    OBVIOUS
  <2>2. i \in 1..Len(messages) - (split + 1) + 1 /\ split + 1 + i - 1 = split + i
    BY <1>1, <1>4
  <2> QED BY <1>3, <2>2
<1>6. recent = <<>> <=> Len(recent) = 0
  BY <1>3
<1> QED BY <1>1, <1>3, <1>4, <1>5, <1>6 DEF recent

\* compact() is a compaction of this form.
LEMMA CompactShortens == ASSUME TypeInv, Compact PROVE \E m, g, r : Shortens(m, g, r)
<1>1. PICK keep \in Keeps :
       LET split  == Split(messages, Min({keep, Len(messages) - 1}))
           old    == SubSeq(messages, 1, split)
           recent == SubSeq(messages, split + 1, Len(messages))
           seq    == IF recent = <<>> THEN nextSeq ELSE recent[1].seq - 1
           m      == [seq |-> seq, kind |-> "summary", id |-> 0, calls |-> {}, call |-> NoCall,
                      covers |-> Covered(old)]
       IN /\ messages' = <<m>> \o recent
          /\ nextSeq' = IF recent = <<>> THEN nextSeq + 1 ELSE nextSeq
          /\ todo' = << BeforeRecent(recent, nextSeq'), WritePart(m), WriteCursor(OnlySeq(nextSeq')) >>
  BY DEF Compact
<1> DEFINE split  == Split(messages, Min({keep, Len(messages) - 1}))
           old    == SubSeq(messages, 1, split)
           recent == SubSeq(messages, split + 1, Len(messages))
           seq    == IF recent = <<>> THEN nextSeq ELSE recent[1].seq - 1
           m      == [seq |-> seq, kind |-> "summary", id |-> 0, calls |-> {}, call |-> NoCall,
                      covers |-> Covered(old)]
           g      == [i \in 2..Len(messages') |-> split + i - 1]
<1>2. /\ messages' = <<m>> \o recent
      /\ nextSeq' = IF recent = <<>> THEN nextSeq + 1 ELSE nextSeq
      /\ todo' = << BeforeRecent(recent, nextSeq'), WritePart(m), WriteCursor(OnlySeq(nextSeq')) >>
  BY <1>1
<1>3. /\ Idle /\ open = <<>> /\ messages # <<>> /\ rewriting' = TRUE
      /\ compacts < MaxCompacts /\ compacts' = compacts + 1
      /\ UNCHANGED <<up, metaDone, open, values, adding, diskVars, node, made, stops, acked, lost,
                     doubled, restarted, outputsSet>>
  BY DEF Compact
<1>4. messages \in Seq(Message) /\ nextSeq \in Nat /\ Len(messages) \in Nat
  BY DEF TypeInv, MemInv
<1>5. split \in 1..Len(messages)
  BY <1>3, SplitAt
<1> HIDE DEF split
<1>6. /\ recent \in Seq(Message) /\ Len(recent) = Len(messages) - split
      /\ \A i \in 1..Len(recent) : recent[i] = messages[split + i]
      /\ recent = <<>> <=> split = Len(messages)
  BY <1>5, RecentIs
<1>7. old \in Seq(Message) /\ Len(old) = split /\ \A i \in 1..split : old[i] = messages[i]
  <2>1. \A i \in 1..split : messages[i] \in Message
    BY <1>4, <1>5
  <2>2. /\ old \in Seq(Message) /\ Len(old) = IF 1 <= split THEN split - 1 + 1 ELSE 0
        /\ \A i \in 1..split - 1 + 1 : old[i] = messages[1 + i - 1]
    BY <1>5, <2>1, SubSeqProperties
  <2> HIDE DEF old
  <2> QED BY <1>5, <2>2
<1> HIDE DEF recent, old
<1>8. recent # <<>> => recent[1] = messages[split + 1] /\ split + 1 \in 2..Len(messages) /\ recent[1] \in Message
  BY <1>4, <1>5, <1>6
<1>9. seq \in Int
  <2>1. recent # <<>> => recent[1].seq \in Int
    BY <1>8 DEF Message
  <2> QED BY <1>4, <2>1
<1>10. Covered(old) \subseteq 1..MaxMessages /\ Covered(old) \subseteq Covered(messages)
  <2>1. \A i \in DOMAIN old : old[i] \in Message /\ i \in DOMAIN messages /\ old[i] = messages[i]
    BY <1>4, <1>5, <1>7
  <2> QED BY <2>1, CoveredType DEF Covered
<1>11. /\ m \in Message /\ m.kind = "summary" /\ m.calls = {} /\ m.seq = seq /\ Stands(m) = Covered(old)
       /\ m.id = 0 /\ m.call = NoCall
  <2> HIDE DEF seq
  <2> QED BY <1>9, <1>10, SummaryIs
<1> HIDE DEF m
<1>12. /\ messages' \in Seq(Message) /\ Len(messages') = 1 + Len(recent) /\ messages'[1] = m
       /\ \A i \in 2..Len(messages') : messages'[i] = recent[i - 1]
  BY <1>2, <1>6, <1>11
<1>13. ASSUME NEW i \in 2..Len(messages')
       PROVE  /\ split + i - 1 \in DOMAIN messages /\ messages'[i] = messages[split + i - 1]
              /\ split + i - 1 >= split + 1
  <2>1. i - 1 \in 1..Len(recent) /\ split + (i - 1) = split + i - 1
    BY <1>4, <1>5, <1>6, <1>12
  <2> QED BY <1>4, <1>5, <1>6, <1>12, <2>1
<1>14. /\ g \in [2..Len(messages') -> DOMAIN messages]
       /\ \A i, j \in 2..Len(messages') : i < j => g[i] < g[j]
       /\ \A i \in 2..Len(messages') : messages'[i] = messages[g[i]] /\ g[i] >= split + 1
  BY <1>5, <1>13
<1>15a. ASSUME NEW i \in split + 1..Len(messages) PROVE \E j \in 2..Len(messages') : g[j] = i
  <2>1. i - split + 1 \in 2..Len(messages') /\ split + (i - split + 1) - 1 = i
    BY <1>4, <1>5, <1>6, <1>12
  <2>2. g[i - split + 1] = i
    BY <2>1
  <2> QED BY <2>1, <2>2
<1>15. ASSUME NEW i \in DOMAIN messages
       PROVE  Stands(messages[i]) \subseteq Stands(m) \/ \E j \in 2..Len(messages') : g[j] = i
  <2>1. CASE i <= split
    <3>1. i \in DOMAIN old /\ old[i] = messages[i]
      BY <1>4, <1>7, <2>1
    <3> QED BY <1>11, <3>1 DEF Covered
  <2>2. CASE i > split
    <3>1. i \in split + 1..Len(messages)
      BY <1>4, <1>5, <2>2
    <3> QED BY <1>15a, <3>1
  <2> QED BY <1>4, <1>5, <2>1, <2>2
<1>16. nextSeq' \in Nat /\ nextSeq' \in {nextSeq, nextSeq + 1}
  BY <1>2, <1>4
<1>17. BeforeRecent(recent, nextSeq') = Delete(IF split + 1 > Len(messages) THEN nextSeq' ELSE messages[split + 1].seq)
  BY <1>4, <1>5, <1>6, <1>8 DEF BeforeRecent
<1>18. (IF split + 1 > Len(messages) THEN nextSeq' ELSE messages[split + 1].seq) \in Int
  <2>1. ~(split + 1 > Len(messages)) => messages[split + 1] \in Message
    BY <1>4, <1>5
  <2> QED BY <1>16, <2>1 DEF Message
<1>19. /\ todo' \in Seq(Ops) /\ Len(todo') = 3
       /\ todo'[1] = Delete(IF split + 1 > Len(messages) THEN nextSeq' ELSE messages[split + 1].seq)
       /\ todo'[2] = WritePart(m) /\ todo'[3] = WriteCursor(OnlySeq(nextSeq'))
  <2>1. WritePart(m) \in Ops /\ WriteCursor(OnlySeq(nextSeq')) \in Ops /\ BeforeRecent(recent, nextSeq') \in Ops
    BY <1>11, <1>16, <1>17, <1>18, OpsAre, OnlySeqIs
  <2> QED BY <1>2, <1>17, <2>1
<1>20. Len(messages') > 1 => m.seq = messages'[2].seq - 1 /\ g[2] > 1
  <2>1. SUFFICES ASSUME Len(messages') > 1 PROVE m.seq = messages'[2].seq - 1 /\ g[2] > 1
    OBVIOUS
  <2>2. 2 \in 2..Len(messages') /\ recent # <<>>
    BY <1>6, <1>12, <2>1
  <2>3. messages'[2] = recent[1]
    BY <1>12, <2>2
  <2> QED BY <1>5, <1>11, <1>14, <2>2, <2>3
<1>21. Len(messages') = 1 => m.seq = nextSeq /\ nextSeq' = nextSeq + 1
  BY <1>2, <1>4, <1>5, <1>6, <1>11, <1>12
<1>22. Stands(m) \subseteq Covered(messages)
  BY <1>10, <1>11
<1>23. split + 1 \in 2..Len(messages) + 1 /\ Len(messages') >= 1
  BY <1>4, <1>5, <1>6, <1>12
<1> HIDE DEF g, seq
<1>24. /\ \A k \in 3..Len(todo') - 1 : \E i \in 2..Len(messages') : todo'[k] = WritePart(messages'[i])
       /\ Len(todo') >= 3 /\ todo'[Len(todo')] = WriteCursor(OnlySeq(nextSeq'))
  BY <1>19
<1>25. \A i \in 2..Len(messages') :
         g[i] >= split + 1 \/ \E k \in 3..Len(todo') - 1 : todo'[k] = WritePart(messages'[i])
  BY <1>14
<1>26. up /\ todo = <<>>
  BY <1>3 DEF Idle
<1>27. Shortens(m, g, split + 1)
  BY <1>3, <1>11, <1>12, <1>14, <1>15, <1>15a, <1>16, <1>19, <1>20, <1>21, <1>22, <1>23, <1>24, <1>25, <1>26
     DEF Shortens
<1> QED BY <1>27

\* Two sequences, one behind the other.
LEMMA JoinIs ==
  ASSUME NEW S, NEW a \in Seq(S), NEW b \in Seq(S)
  PROVE  /\ a \o b \in Seq(S) /\ Len(a \o b) = Len(a) + Len(b)
         /\ \A i \in 1..Len(a) : (a \o b)[i] = a[i]
         /\ \A i \in 1..Len(b) : (a \o b)[Len(a) + i] = b[i]
OBVIOUS

\* Where a recent message goes.
LEMMA PlaceIs ==
  ASSUME NEW l \in Nat, NEW s \in 1..l, NEW c \in Nat, NEW i \in 1..l, i > s
  PROVE  /\ i - s + 1 + c \in 2..(1 + c + (l - s)) /\ ~(i - s + 1 + c <= 1 + c)
         /\ s + ((i - s + 1 + c) - 1 - c) = i
OBVIOUS

\* The messages a compaction keeps.
LEMMA KeptIs ==
  ASSUME TypeInv, NEW split \in 1..Len(messages), NEW kept \in SUBSET (1..split)
  PROVE  /\ Cardinality(kept) \in Nat
         /\ Subsequence(messages, kept) \in Seq(Message)
         /\ Len(Subsequence(messages, kept)) = Cardinality(kept)
         /\ \A i \in 1..Cardinality(kept) :
              Subsequence(messages, kept)[i] = messages[Nth(kept, i)] /\ Nth(kept, i) \in kept
         /\ \A i, j \in 1..Cardinality(kept) : i < j => Nth(kept, i) < Nth(kept, j)
         /\ \A k \in kept : \E i \in 1..Cardinality(kept) : Nth(kept, i) = k
<1>1. messages \in Seq(Message) /\ Len(messages) \in Nat /\ split \in Nat
  BY DEF TypeInv, MemInv
<1>2. kept \in SUBSET (-1..split)
  BY <1>1
<1>3. \A k \in kept : messages[k] \in Message
  BY <1>1
<1>4. Cardinality(kept) \in Nat
  BY <1>1, <1>2, RangeFinite
<1>5. /\ Subsequence(messages, kept) \in Seq(Message)
      /\ Len(Subsequence(messages, kept)) = Cardinality(kept)
      /\ \A i \in 1..Cardinality(kept) :
           Subsequence(messages, kept)[i] = messages[Nth(kept, i)] /\ Nth(kept, i) \in kept
  BY <1>1, <1>2, <1>3, SubsequenceIs
<1>6. \A i, j \in 1..Cardinality(kept) : i < j => Nth(kept, i) < Nth(kept, j)
  BY <1>1, <1>2, NthOrder
<1>7. \A k \in kept : \E i \in 1..Cardinality(kept) : Nth(kept, i) = k
  BY <1>1, <1>2, NthAll
<1> QED BY <1>4, <1>5, <1>6, <1>7

\* What a compaction makes of the messages: a summary of the rest, the messages
\* it keeps, the recent ones.
StructuredWith(split, kept, m) ==
  LET recent == SubSeq(messages, split + 1, Len(messages))
      keptMessages == Subsequence(messages, kept)
      rest  == Subsequence(messages, 1..split \ kept)
      seq   == IF keptMessages # <<>> THEN keptMessages[1].seq - 1
               ELSE IF recent # <<>> THEN recent[1].seq - 1 ELSE nextSeq
  IN /\ m = [seq |-> seq, kind |-> "summary", id |-> 0, calls |-> {}, call |-> NoCall, covers |-> Covered(rest)]
     /\ messages' = <<m>> \o keptMessages \o recent
     /\ nextSeq' = IF seq = nextSeq THEN nextSeq + 1 ELSE nextSeq
     /\ todo' = << BeforeRecent(recent, nextSeq'), WritePart(m) >> \o Rewritten(keptMessages)
                \o << WriteCursor(OnlySeq(nextSeq')) >>

CompactRest ==
  /\ Idle /\ open = <<>> /\ messages # <<>> /\ compacts < MaxCompacts
  /\ rewriting' = TRUE
  /\ compacts' = compacts + 1
  /\ UNCHANGED <<up, metaDone, open, values, adding, diskVars, node, made, stops, acked, lost, doubled,
                 restarted, outputsSet>>

\* What a compaction makes of the messages: a summary of the rest, those it keeps, the recent ones.
LEMMA StructureShortens ==
  ASSUME TypeInv, CompactRest, NEW split \in 1..Len(messages), NEW kept \in SUBSET (1..split), NEW m,
         \A i \in kept : messages[i].calls # {} \/ messages[i].kind = "tool",
         StructuredWith(split, kept, m)
  PROVE  \E g, r : Shortens(m, g, r)
<1> DEFINE recent == SubSeq(messages, split + 1, Len(messages))
           ks     == Subsequence(messages, kept)
           c      == Cardinality(kept)
           rest   == Subsequence(messages, 1..split \ kept)
           seq    == IF ks # <<>> THEN ks[1].seq - 1
                     ELSE IF recent # <<>> THEN recent[1].seq - 1 ELSE nextSeq
           g      == [i \in 2..Len(messages') |-> IF i <= 1 + c THEN Nth(kept, i - 1) ELSE split + (i - 1 - c)]
<1>1. /\ m = [seq |-> seq, kind |-> "summary", id |-> 0, calls |-> {}, call |-> NoCall, covers |-> Covered(rest)]
      /\ messages' = <<m>> \o ks \o recent
      /\ nextSeq' = IF seq = nextSeq THEN nextSeq + 1 ELSE nextSeq
      /\ todo' = << BeforeRecent(recent, nextSeq'), WritePart(m) >> \o Rewritten(ks)
                 \o << WriteCursor(OnlySeq(nextSeq')) >>
  BY DEF StructuredWith
<1>2. messages \in Seq(Message) /\ nextSeq \in Nat /\ Len(messages) \in Nat /\ split \in Nat
  BY DEF TypeInv, MemInv
<1>3. /\ recent \in Seq(Message) /\ Len(recent) = Len(messages) - split
      /\ \A i \in 1..Len(recent) : recent[i] = messages[split + i]
      /\ recent = <<>> <=> split = Len(messages)
  BY RecentIs
<1>4. /\ c \in Nat /\ ks \in Seq(Message) /\ Len(ks) = c
      /\ \A i \in 1..c : ks[i] = messages[Nth(kept, i)] /\ Nth(kept, i) \in kept
      /\ \A i, j \in 1..c : i < j => Nth(kept, i) < Nth(kept, j)
      /\ \A k \in kept : \E i \in 1..c : Nth(kept, i) = k
  BY KeptIs
<1>5. /\ Cardinality(1..split \ kept) \in Nat /\ Len(rest) = Cardinality(1..split \ kept) /\ rest \in Seq(Message)
      /\ \A i \in 1..Cardinality(1..split \ kept) :
           rest[i] = messages[Nth(1..split \ kept, i)] /\ Nth(1..split \ kept, i) \in 1..split \ kept
      /\ \A k \in 1..split \ kept : \E i \in 1..Cardinality(1..split \ kept) : Nth(1..split \ kept, i) = k
  BY 1..split \ kept \in SUBSET (1..split), KeptIs
<1> HIDE DEF recent, ks, c, rest, seq
<1>6. ks = <<>> <=> c = 0
  BY <1>4
<1>7. recent # <<>> => recent[1] = messages[split + 1] /\ split + 1 \in 2..Len(messages) /\ recent[1] \in Message
  BY <1>2, <1>3
<1>8. seq \in Int
  <2>1. recent # <<>> => recent[1].seq \in Int
    BY <1>7 DEF Message
  <2>2. ks # <<>> => ks[1] \in Message
    BY <1>4, <1>6
  <2>3. ks # <<>> => ks[1].seq \in Int
    BY <2>2 DEF Message
  <2> QED BY <1>2, <2>1, <2>3 DEF seq
<1>9. DOMAIN rest = 1..Cardinality(1..split \ kept)
  BY <1>5
<1>10. Covered(rest) \subseteq 1..MaxMessages /\ Covered(rest) \subseteq Covered(messages)
  <2>1. \A i \in DOMAIN rest : rest[i] \in Message
    BY <1>5
  <2>2. \A i \in DOMAIN rest : \E j \in DOMAIN messages : rest[i] = messages[j]
    <3>1. SUFFICES ASSUME NEW i \in DOMAIN rest PROVE \E j \in DOMAIN messages : rest[i] = messages[j]
      OBVIOUS
    <3>2. i \in 1..Cardinality(1..split \ kept)
      BY <1>9
    <3> DEFINE j == Nth(1..split \ kept, i)
    <3>3. rest[i] = messages[j] /\ j \in 1..split
      BY <1>5, <3>2
    <3>4. j \in DOMAIN messages
      BY <1>2, <3>3
    <3> QED BY <3>3, <3>4
  <2>3. Covered(rest) \subseteq 1..MaxMessages
    BY <2>1, CoveredType
  <2>4. Covered(rest) \subseteq Covered(messages)
    BY <2>2 DEF Covered
  <2> QED BY <2>3, <2>4
<1>11. /\ m \in Message /\ m.kind = "summary" /\ m.calls = {} /\ m.seq = seq /\ Stands(m) = Covered(rest)
       /\ m.id = 0 /\ m.call = NoCall
  BY SMTT(30), <1>1, <1>8, <1>10, SummaryIs
<1>12. /\ messages' \in Seq(Message) /\ Len(messages') = 1 + c + Len(recent) /\ messages'[1] = m
       /\ \A i \in 2..1 + c : messages'[i] = ks[i - 1]
       /\ \A i \in 2 + c..Len(messages') : messages'[i] = recent[i - 1 - c]
  <2> DEFINE a == <<m>> \o ks
  <2>1. a \in Seq(Message) /\ Len(a) = 1 + c /\ a[1] = m /\ \A i \in 2..1 + c : a[i] = ks[i - 1]
    BY <1>4, <1>11
  <2>2. messages' = a \o recent
    BY <1>1
  <2> HIDE DEF a
  <2>3. /\ messages' \in Seq(Message) /\ Len(messages') = 1 + c + Len(recent)
        /\ \A i \in 1..1 + c : messages'[i] = a[i]
        /\ \A i \in 1..Len(recent) : messages'[1 + c + i] = recent[i]
    <3>1. a \in Seq(Message) /\ recent \in Seq(Message)
      BY <1>3, <2>1
    <3>2. /\ a \o recent \in Seq(Message) /\ Len(a \o recent) = Len(a) + Len(recent)
          /\ \A i \in 1..Len(a) : (a \o recent)[i] = a[i]
          /\ \A i \in 1..Len(recent) : (a \o recent)[Len(a) + i] = recent[i]
      BY <3>1, JoinIs
    <3> QED BY <2>1, <2>2, <3>2
  <2>4. ASSUME NEW i \in 2 + c..Len(messages') PROVE messages'[i] = recent[i - 1 - c]
    <3>1. i - 1 - c \in 1..Len(recent) /\ 1 + c + (i - 1 - c) = i
      BY <1>3, <1>4, <2>3
    <3> QED BY <2>3, <3>1
  <2>5. 1 \in 1..1 + c /\ \A i \in 2..1 + c : i \in 1..1 + c
    BY <1>4
  <2> QED BY <2>1, <2>3, <2>4, <2>5
<1>lens. /\ Len(recent) \in Nat /\ Len(recent) = Len(messages) - split /\ c \in Nat
        /\ Len(messages') = 1 + c + Len(recent)
  BY <1>2, <1>3, <1>4, <1>12
<1>13. ASSUME NEW i \in 2..Len(messages')
       PROVE  /\ g[i] \in DOMAIN messages /\ messages'[i] = messages[g[i]]
              /\ IF i <= 1 + c THEN i - 1 \in 1..c /\ g[i] = Nth(kept, i - 1) /\ g[i] \in kept /\ g[i] <= split
                 ELSE g[i] = split + (i - 1 - c) /\ g[i] >= split + 1
  <2>1. CASE i <= 1 + c
    <3>1. i \in 2..1 + c /\ i - 1 \in 1..c
      BY <1>4, <2>1
    <3>2. g[i] = Nth(kept, i - 1)
      BY <2>1
    <3>3. Nth(kept, i - 1) \in kept /\ ks[i - 1] = messages[Nth(kept, i - 1)] /\ messages'[i] = ks[i - 1]
      BY <1>4, <1>12, <3>1
    <3>4. \A k \in kept : k \in 1..split /\ k \in 1..Len(messages)
      BY <1>2
    <3> HIDE DEF g
    <3> QED BY <1>2, <2>1, <3>1, <3>2, <3>3, <3>4
  <2>2. CASE ~(i <= 1 + c)
    <3>1. i \in 2 + c..Len(messages') /\ i - 1 - c \in 1..Len(recent)
      BY <1>3, <1>4, <1>12, <2>2
    <3>2. g[i] = split + (i - 1 - c)
      BY <2>2
    <3>3. messages'[i] = messages[split + (i - 1 - c)]
      BY <1>3, <1>12, <3>1
    <3> HIDE DEF g
    <3> QED BY <1>2, <1>3, <2>2, <3>1, <3>2, <3>3
  <2> QED BY <2>1, <2>2
<1>14. g = [i \in 2..Len(messages') |-> g[i]]
  OBVIOUS
<1> HIDE DEF g
<1>15. g \in [2..Len(messages') -> DOMAIN messages]
  BY <1>13, <1>14
<1>16. ASSUME NEW i \in 2..Len(messages'), NEW j \in 2..Len(messages'), i < j PROVE g[i] < g[j]
  <2>0. i \in Int /\ j \in Int /\ g[i] \in Int /\ g[j] \in Int
    BY <1>2, <1>13
  <2>1. CASE j <= 1 + c
    <3>1. /\ i - 1 \in 1..c /\ g[i] = Nth(kept, i - 1)
          /\ j - 1 \in 1..c /\ g[j] = Nth(kept, j - 1)
      BY <1>4, <1>13, <1>16, <2>0, <2>1
    <3> QED BY <1>4, <1>16, <2>0, <3>1
  <2>2. CASE ~(j <= 1 + c) /\ i <= 1 + c
    BY <1>2, <1>13, <2>0, <2>2
  <2>3. CASE ~(i <= 1 + c)
    <3>1. ~(j <= 1 + c)
      BY <1>4, <1>16, <2>0, <2>3
    <3>2. g[i] = split + (i - 1 - c) /\ g[j] = split + (j - 1 - c)
      BY <1>13, <2>3, <3>1
    <3> QED BY <1>2, <1>4, <1>16, <2>0, <3>2
  <2> QED BY <2>1, <2>2, <2>3
<1>17a. ASSUME NEW i \in split + 1..Len(messages) PROVE \E j \in 2..Len(messages') : g[j] = i
  <2>1. i \in 1..Len(messages) /\ i > split
    BY <1>2
  <2>2. i - split + 1 + c \in 2..Len(messages') /\ ~(i - split + 1 + c <= 1 + c)
        /\ split + ((i - split + 1 + c) - 1 - c) = i
    BY SMTT(30), <1>2, <1>lens, <2>1, PlaceIs
  <2>3. g[i - split + 1 + c] = split + ((i - split + 1 + c) - 1 - c)
    BY <1>13, <2>2
  <2> QED BY <2>2, <2>3
<1>17. ASSUME NEW i \in DOMAIN messages
       PROVE  Stands(messages[i]) \subseteq Stands(m) \/ \E j \in 2..Len(messages') : g[j] = i
  <2>0. i \in 1..Len(messages)
    BY <1>2
  <2>1. CASE i \in kept
    <3>1. PICK k \in 1..c : Nth(kept, k) = i
      BY <1>4, <2>1
    <3>2. k + 1 \in 2..Len(messages') /\ k + 1 <= 1 + c /\ (k + 1) - 1 = k
      BY <1>2, <1>3, <1>4, <1>12
    <3>3. g[k + 1] = Nth(kept, k)
      BY <1>13, <3>2
    <3> QED BY <3>1, <3>2, <3>3
  <2>2. CASE i \notin kept /\ i <= split
    <3>1. i \in 1..split \ kept
      BY <2>0, <2>2
    <3>2. PICK k \in 1..Cardinality(1..split \ kept) : Nth(1..split \ kept, k) = i
      BY <1>5, <3>1
    <3>3. k \in DOMAIN rest /\ rest[k] = messages[i]
      BY <1>5, <1>9, <3>2
    <3> QED BY <1>11, <3>3 DEF Covered
  <2>3. CASE i > split
    <3>1. i \in split + 1..Len(messages)
      BY <1>2, <2>0, <2>3
    <3> QED BY <1>17a, <3>1
  <2> QED BY <1>2, <2>0, <2>1, <2>2, <2>3
<1>18. nextSeq' \in Nat /\ nextSeq' \in {nextSeq, nextSeq + 1}
  BY <1>1, <1>2
<1> DEFINE before == IF split + 1 > Len(messages) THEN nextSeq' ELSE messages[split + 1].seq
<1>19. BeforeRecent(recent, nextSeq') = Delete(before)
  BY <1>2, <1>3, <1>7 DEF BeforeRecent
<1>20. before \in Int
  <2>1. ~(split + 1 > Len(messages)) => messages[split + 1] \in Message
    BY <1>2
  <2> QED BY <1>18, <2>1 DEF Message
<1> HIDE DEF before
<1>21. /\ todo' \in Seq(Ops) /\ Len(todo') = 3 + c
       /\ todo'[1] = Delete(before) /\ todo'[2] = WritePart(m)
       /\ \A k \in 3..2 + c : todo'[k] = WritePart(ks[k - 2])
       /\ todo'[3 + c] = WriteCursor(OnlySeq(nextSeq'))
  <2> DEFINE x == << Delete(before), WritePart(m) >>
             y == Rewritten(ks)
             z == << WriteCursor(OnlySeq(nextSeq')) >>
  <2>1. x \in Seq(Ops) /\ Len(x) = 2 /\ x[1] = Delete(before) /\ x[2] = WritePart(m)
    BY <1>11, <1>20, OpsAre
  <2>2. y \in Seq(Ops) /\ Len(y) = c /\ \A k \in 1..c : y[k] = WritePart(ks[k])
    <3>1. \A k \in 1..c : ks[k] \in Message /\ WritePart(ks[k]) \in Ops
      BY <1>4, OpsAre
    <3>2. y = [k \in 1..c |-> WritePart(ks[k])]
      BY <1>4 DEF Rewritten
    <3> HIDE DEF y
    <3>3. y \in [1..c -> Ops]
      BY <3>1, <3>2
    <3> QED BY <1>4, <3>2, <3>3
  <2>3. z \in Seq(Ops) /\ Len(z) = 1 /\ z[1] = WriteCursor(OnlySeq(nextSeq'))
    BY <1>18, OpsAre, OnlySeqIs
  <2>4. todo' = (x \o y) \o z
    BY <1>1, <1>19
  <2> HIDE DEF x, y, z
  <2>5. x \o y \in Seq(Ops) /\ Len(x \o y) = 2 + c /\ (x \o y)[1] = x[1] /\ (x \o y)[2] = x[2]
        /\ \A k \in 1..c : (x \o y)[2 + k] = y[k]
    <3>1. x \in Seq(Ops) /\ y \in Seq(Ops)
      BY <2>1, <2>2
    <3>2. /\ x \o y \in Seq(Ops) /\ Len(x \o y) = Len(x) + Len(y)
          /\ \A i \in 1..Len(x) : (x \o y)[i] = x[i]
          /\ \A i \in 1..Len(y) : (x \o y)[Len(x) + i] = y[i]
      BY <3>1, JoinIs
    <3>3. Len(x) = 2 /\ Len(y) = c /\ 1 \in 1..2 /\ 2 \in 1..2
      BY <2>1, <2>2
    <3> QED BY <3>2, <3>3
  <2>6. \A k \in 3..2 + c : k - 2 \in 1..c /\ 2 + (k - 2) = k
    BY <1>lens
  <2> DEFINE w == x \o y
  <2>7. w \in Seq(Ops) /\ Len(w) = 2 + c /\ w[1] = Delete(before) /\ w[2] = WritePart(m)
        /\ \A k \in 3..2 + c : w[k] = WritePart(ks[k - 2])
    BY <2>1, <2>2, <2>5, <2>6
  <2>8. todo' = w \o z
    BY <2>4
  <2> HIDE DEF w
  <2>9. /\ todo' \in Seq(Ops) /\ Len(todo') = 3 + c
        /\ \A i \in 1..2 + c : todo'[i] = w[i]
        /\ \A i \in 1..1 : todo'[2 + c + i] = z[i]
    <3>1. w \in Seq(Ops) /\ z \in Seq(Ops)
      BY <2>3, <2>7
    <3>2. /\ w \o z \in Seq(Ops) /\ Len(w \o z) = Len(w) + Len(z)
          /\ \A i \in 1..Len(w) : (w \o z)[i] = w[i]
          /\ \A i \in 1..Len(z) : (w \o z)[Len(w) + i] = z[i]
      BY <3>1, JoinIs
    <3>3. Len(w) = 2 + c /\ Len(z) = 1 /\ 2 + c + 1 = 3 + c
      BY <1>lens, <2>3, <2>7
    <3> QED BY <2>8, <3>2, <3>3
  <2>10. /\ 1 \in 1..2 + c /\ 2 \in 1..2 + c /\ 1 \in 1..1 /\ 2 + c + 1 = 3 + c
         /\ \A k \in 3..2 + c : k \in 1..2 + c
    BY <1>lens
  <2> QED BY <2>3, <2>7, <2>9, <2>10
<1>22. ASSUME NEW k \in 3..Len(todo') - 1 PROVE \E i \in 2..Len(messages') : todo'[k] = WritePart(messages'[i])
  <2>1. k \in 3..2 + c /\ k - 1 \in 2..1 + c /\ (k - 1) - 1 = k - 2 /\ k - 1 \in 2..Len(messages')
    BY <1>lens, <1>21
  <2>2. todo'[k] = WritePart(ks[k - 2]) /\ messages'[k - 1] = ks[k - 2]
    BY <1>12, <1>21, <2>1
  <2> QED BY <2>1, <2>2
<1>23. ASSUME NEW i \in 2..Len(messages')
       PROVE  g[i] >= split + 1 \/ \E k \in 3..Len(todo') - 1 : todo'[k] = WritePart(messages'[i])
  <2>1. CASE i <= 1 + c
    <3>1. i \in 2..1 + c /\ i + 1 \in 3..2 + c /\ (i + 1) - 2 = i - 1 /\ i + 1 \in 3..Len(todo') - 1
      BY <1>4, <1>21, <2>1
    <3>2. todo'[i + 1] = WritePart(ks[i - 1]) /\ messages'[i] = ks[i - 1]
      BY <1>12, <1>21, <3>1
    <3> QED BY <3>1, <3>2
  <2>2. CASE ~(i <= 1 + c)
    BY <1>13, <2>2
  <2> QED BY <2>1, <2>2
<1>24. Len(messages') > 1 => m.seq = messages'[2].seq - 1
  <2>1. SUFFICES ASSUME Len(messages') > 1 PROVE m.seq = messages'[2].seq - 1
    OBVIOUS
  <2>2. CASE c # 0
    <3>1. 2 \in 2..1 + c /\ messages'[2] = ks[1]
      BY <1>4, <1>12, <2>2
    <3> QED BY <1>6, <1>11, <2>2, <3>1 DEF seq
  <2>3. CASE c = 0
    <3>1. 2 \in 2 + c..Len(messages') /\ recent # <<>> /\ ks = <<>>
      BY <1>3, <1>6, <1>12, <2>1, <2>3
    <3>2. messages'[2] = recent[1]
      BY <1>12, <2>3, <3>1
    <3> QED BY <1>11, <3>1, <3>2 DEF seq
  <2> QED BY <2>2, <2>3
<1>25. Len(messages') > 1 => g[2] > 1 \/ messages[g[2]].calls # {} \/ messages[g[2]].kind = "tool"
  <2>1. SUFFICES ASSUME Len(messages') > 1
                 PROVE  g[2] > 1 \/ messages[g[2]].calls # {} \/ messages[g[2]].kind = "tool"
    OBVIOUS
  <2>2. 2 \in 2..Len(messages')
    BY <1>12, <2>1, <1>3, <1>4
  <2>3. g[2] \in kept \/ g[2] >= split + 1
    BY <1>13, <2>2
  <2>4. g[2] \in Int
    BY <1>2, <1>13, <2>2
  <2> QED BY <1>2, <2>3, <2>4
<1>26. Len(messages') = 1 => m.seq = nextSeq /\ nextSeq' = nextSeq + 1
  <2>1. Len(messages') = 1 => ks = <<>> /\ recent = <<>>
    <3>0. \A x, y \in Nat : 1 + x + y = 1 => x = 0 /\ y = 0
      OBVIOUS
    <3>1. Len(messages') = 1 => c = 0 /\ Len(recent) = 0
      BY <1>lens, <3>0
    <3>2. Len(recent) = 0 => recent = <<>>
      BY <1>3
    <3> QED BY <1>6, <3>1, <3>2
  <2> QED BY <1>1, <1>11, <2>1 DEF seq
<1>27. /\ split + 1 \in 2..Len(messages) + 1 /\ Len(messages') >= 1 /\ Len(todo') >= 3
       /\ todo'[Len(todo')] = WriteCursor(OnlySeq(nextSeq')) /\ up /\ todo = <<>>
       /\ Stands(m) \subseteq Covered(messages)
  BY SMTT(30), <1>2, <1>3, <1>4, <1>10, <1>11, <1>12, <1>21 DEF Idle, CompactRest
<1>28. Shortens(m, g, split + 1)
  BY <1>11, <1>12, <1>13, <1>15, <1>16, <1>17, <1>17a, <1>18, <1>21, <1>22, <1>23, <1>24, <1>25, <1>26, <1>27
     DEF Shortens, before, CompactRest
<1> QED BY <1>28

\* The action, with its summary named.
LEMMA StructuredIs ==
  ASSUME NEW split, NEW kept, Structured(split, kept)
  PROVE  \E m : StructuredWith(split, kept, m)
BY DEF Structured, StructuredWith

\* They have calls or are results.
LEMMA KeptOfIs ==
  ASSUME NEW split, NEW protected \in SUBSET {i \in 1..split : messages[i].calls # {}},
         NEW errors \in SUBSET {i \in 1..split : messages[i].kind = "tool"}
  PROVE  /\ KeptOf(split, protected, errors) \subseteq 1..split
         /\ \A i \in KeptOf(split, protected, errors) : messages[i].calls # {} \/ messages[i].kind = "tool"
BY DEF KeptOf

\* And so is compact_preserving_structure().
LEMMA CompactStructureShortens == ASSUME TypeInv, CompactStructure PROVE \E m, g, r : Shortens(m, g, r)
<1>1. PICK keep \in Keeps :
        LET split == Split(messages, Min({keep, Len(messages) - 1}))
        IN \E protected \in SUBSET {i \in 1..split : messages[i].calls # {}},
              errors \in SUBSET {i \in 1..split : messages[i].kind = "tool"} :
                Structured(split, KeptOf(split, protected, errors))
  BY Zenon DEF CompactStructure
<1> DEFINE split == Split(messages, Min({keep, Len(messages) - 1}))
<1>2. CompactRest /\ messages # <<>>
  BY Zenon DEF CompactStructure, CompactRest
<1>3. split \in 1..Len(messages)
  BY <1>2, SplitAt DEF CompactRest
<1> HIDE DEF split
<1>4. PICK protected \in SUBSET {i \in 1..split : messages[i].calls # {}},
           errors \in SUBSET {i \in 1..split : messages[i].kind = "tool"} :
        Structured(split, KeptOf(split, protected, errors))
  BY <1>1 DEF split
<1> DEFINE kept == KeptOf(split, protected, errors)
<1>5. kept \in SUBSET (1..split) /\ \A i \in kept : messages[i].calls # {} \/ messages[i].kind = "tool"
  BY KeptOfIs
<1> HIDE DEF kept
<1>6. PICK m : StructuredWith(split, kept, m)
  BY <1>4, StructuredIs DEF kept
<1> QED BY <1>2, <1>3, <1>5, <1>6, StructureShortens

----------------------------------------------------------------------------
(* The files.                                                              *)

\* A file operation keeps the files in order.
LEMMA PutDisk ==
  ASSUME DiskInv, NEW m \in Message, Numbered(m), parts' = Put(m), cursor' = NoCursor \/ cursor' \in Cursors
  PROVE  DiskInv'
<1>1. m.seq \in Int /\ m.seq >= -1 /\ parts \in [DOMAIN parts -> Message]
  BY DEF DiskInv, Message, Numbered
<1>2. PICK b \in Nat : DOMAIN parts \subseteq -1..b
  BY DEF DiskInv
<1>3. parts' = [s \in DOMAIN parts \cup {m.seq} |-> IF s = m.seq THEN m ELSE parts[s]]
  BY DEF Put
<1>4. parts' \in [DOMAIN parts' -> Message]
  BY <1>1, <1>3
<1>5. DOMAIN parts' = DOMAIN parts \cup {m.seq}
  BY <1>3
<1>6. ASSUME NEW s \in DOMAIN parts' PROVE parts'[s].seq = s /\ Numbered(parts'[s])
  BY <1>3, <1>5 DEF DiskInv
<1>7. \E c \in Nat : DOMAIN parts' \subseteq -1..c
  <2> DEFINE c == IF m.seq > b THEN m.seq ELSE b
  <2>1. c \in Nat
    BY <1>1
  <2>2. ASSUME NEW s \in DOMAIN parts' PROVE s \in -1..c
    BY <1>1, <1>2, <1>5
  <2> QED BY <2>1, <2>2
<1> QED BY <1>4, <1>6, <1>7 DEF DiskInv

\* So does the deletion of some files.
LEMMA FewerDisk ==
  ASSUME DiskInv, NEW K \in SUBSET DOMAIN parts, parts' = [s \in K |-> parts[s]],
         cursor' = NoCursor \/ cursor' \in Cursors
  PROVE  DiskInv'
<1>1. DOMAIN parts' = K /\ \A s \in K : parts'[s] = parts[s] /\ s \in DOMAIN parts
  OBVIOUS
<1>2. parts \in [DOMAIN parts -> Message]
  BY DEF DiskInv
<1>3. parts' \in [DOMAIN parts' -> Message]
  BY <1>1, <1>2
<1>4. PICK b \in Nat : DOMAIN parts \subseteq -1..b
  BY DEF DiskInv
<1>5. \E c \in Nat : DOMAIN parts' \subseteq -1..c
  BY <1>1, <1>4
<1>6. \A s \in DOMAIN parts' : parts'[s].seq = s /\ Numbered(parts'[s])
  BY <1>1 DEF DiskInv
<1> QED BY <1>3, <1>5, <1>6 DEF DiskInv

\* And what leaves them alone.
LEMMA SameDisk == ASSUME DiskInv, UNCHANGED parts, cursor' = NoCursor \/ cursor' \in Cursors PROVE DiskInv'
BY DEF DiskInv

\* An operation that is done keeps the types of the files.
LEMMA PerformDisk ==
  ASSUME DiskInv, meta \in BOOLEAN, NEW f \in Ops, f.op = "part" => Numbered(f.part), Perform(f)
  PROVE  DiskInv' /\ meta' \in BOOLEAN
<1>1. /\ parts' = CASE f.op = "part"   -> Put(f.part)
                    [] f.op = "delete" -> [s \in {t \in DOMAIN parts : t >= f.before} |-> parts[s]]
                    [] OTHER           -> parts
      /\ cursor' = IF f.op = "cursor" THEN f.cursor ELSE cursor
      /\ meta' = (f.op = "meta" \/ meta)
  BY DEF Perform
<1>2. cursor' = NoCursor \/ cursor' \in Cursors
  BY <1>1, OpIs DEF DiskInv
<1>3. CASE f.op = "part"
  <2>1. f.part \in Message /\ Numbered(f.part) /\ parts' = Put(f.part)
    BY <1>1, <1>3, OpIs
  <2> QED BY <1>1, <1>2, <2>1, PutDisk
<1>4. CASE f.op = "delete"
  <2>1. parts' = [s \in {t \in DOMAIN parts : t >= f.before} |-> parts[s]]
    BY <1>1, <1>4
  <2>2. {t \in DOMAIN parts : t >= f.before} \in SUBSET DOMAIN parts
    OBVIOUS
  <2> QED BY <1>1, <1>2, <2>1, <2>2, FewerDisk
<1>5. CASE f.op # "part" /\ f.op # "delete"
  BY <1>1, <1>2, <1>5, SameDisk
<1> QED BY <1>3, <1>4, <1>5

\* One that a crash tears does, too, and what it leaves was there before.
LEMMA TearDisk ==
  ASSUME DiskInv, meta \in BOOLEAN, NEW f \in Ops, Tear(f)
  PROVE  /\ DiskInv' /\ meta' \in BOOLEAN
         /\ \A s \in DOMAIN parts' : s \in DOMAIN parts /\ parts'[s] = parts[s]
         /\ meta' # meta => f.op = "meta" /\ ~meta'
         /\ cursor' # cursor => cursor' = NoCursor
         /\ f.op # "part" /\ f.op # "delete" => UNCHANGED parts
         /\ f.op = "part" => DOMAIN parts \ DOMAIN parts' \subseteq {f.part.seq}
         /\ f.op = "delete" => \A s \in DOMAIN parts : s >= f.before => s \in DOMAIN parts'
<1>0. cursor = NoCursor \/ cursor \in Cursors
  BY DEF DiskInv
<1>1. CASE UNCHANGED diskVars
  BY <1>0, <1>1, SameDisk DEF diskVars
<1>2. CASE /\ f.op = "part"
           /\ parts' = [s \in DOMAIN parts \ {f.part.seq} |-> parts[s]]
           /\ UNCHANGED <<meta, cursor>>
  <2>1. DOMAIN parts \ {f.part.seq} \in SUBSET DOMAIN parts
    OBVIOUS
  <2> QED BY <1>0, <1>2, <2>1, FewerDisk
<1>3. CASE f.op = "cursor" /\ cursor' = NoCursor /\ UNCHANGED <<parts, meta>>
  BY <1>3, SameDisk
<1>4. CASE f.op = "meta" /\ meta' = FALSE /\ UNCHANGED <<parts, cursor>>
  BY <1>0, <1>4, SameDisk
<1>5. CASE /\ f.op = "delete"
           /\ \E gone \in SUBSET {s \in DOMAIN parts : s < f.before} :
                parts' = [s \in DOMAIN parts \ gone |-> parts[s]]
           /\ UNCHANGED <<meta, cursor>>
  <2>1. PICK gone \in SUBSET {s \in DOMAIN parts : s < f.before} : parts' = [s \in DOMAIN parts \ gone |-> parts[s]]
    BY <1>5
  <2>2. DOMAIN parts \ gone \in SUBSET DOMAIN parts
    OBVIOUS
  <2>3. ASSUME NEW s \in DOMAIN parts, s >= f.before PROVE s \in DOMAIN parts \ gone
    <3>1. s \in Int /\ f.before \in Int
      BY <1>5, OpIs DEF DiskInv
    <3> QED BY <2>3, <3>1
  <2> QED BY <1>0, <1>5, <2>1, <2>2, <2>3, FewerDisk
<1> QED BY <1>1, <1>2, <1>3, <1>4, <1>5 DEF Tear

----------------------------------------------------------------------------
(* The other operations, in short.                                         *)

\* Only the cursor is written.
Marks(c) ==
  /\ up /\ todo = <<>> /\ c \in Cursors
  /\ (c.nextSeq = nextSeq) \/ (cursor # NoCursor /\ c.nextSeq = cursor.nextSeq)
  /\ todo' = <<WriteCursor(c)>>
  /\ values' \subseteq OutputKeys
  /\ UNCHANGED <<up, messages, nextSeq, metaDone, open, adding, rewriting, diskVars, node, made, compacts,
                 stops, acked, lost, doubled, restarted, outputsSet>>

\* An output writes the cursor alone.
LEMMA SetOutputMarks ==
  ASSUME TypeInv, CallInv, NEW k \in OutputKeys, SetOutput(k) PROVE \E c : Marks(c)
<1>1. /\ Idle /\ open # <<>> /\ values' = values \cup {k}
      /\ todo' = <<WriteCursor([cursor EXCEPT !.outputs = @ \cup {k}])>>
      /\ UNCHANGED <<up, messages, nextSeq, metaDone, open, adding, rewriting, diskVars, node, made, compacts,
                     stops, acked, lost, doubled, restarted, outputsSet>>
  BY DEF SetOutput
<1>2. cursor # NoCursor
  <2>1. todo = <<>> /\ (open # <<>> /\ cursor = NoCursor => Places("cursor") # {})
    BY <1>1 DEF Idle, CallInv
  <2>2. Places("cursor") = {}
    BY <2>1 DEF Places
  <2> QED BY <1>1, <2>1, <2>2
<1>3. cursor \in Cursors /\ values \subseteq OutputKeys
  BY <1>2 DEF TypeInv, DiskInv, MemInv
<1> DEFINE c == [cursor EXCEPT !.outputs = @ \cup {k}]
<1>4. c \in Cursors /\ c.nextSeq = cursor.nextSeq
  BY <1>3 DEF Cursors
<1> HIDE DEF c
<1>5. Marks(c)
  BY <1>1, <1>2, <1>3, <1>4 DEF Marks, Idle, c
<1> QED BY <1>5

\* So does the end of a turn.
LEMMA CheckpointMarks == ASSUME TypeInv, Checkpoint PROVE \E c : Marks(c)
<1> DEFINE c == [nextSeq |-> nextSeq, outputs |-> values]
<1>1. c \in Cursors /\ c.nextSeq = nextSeq /\ values \subseteq OutputKeys
  BY DEF Cursors, TypeInv, MemInv
<1>2. Marks(c)
  BY <1>1 DEF Marks, Checkpoint, Idle, memVars
<1> QED BY <1>2

\* The session stops: what is left are the files.
Stopped ==
  /\ up' = FALSE /\ todo' = <<>> /\ adding' = 0 /\ rewriting' = FALSE
  /\ messages' = <<>> /\ nextSeq' = 0 /\ metaDone' = FALSE /\ open' = <<>> /\ values' = {}
  /\ stops < MaxStops /\ stops' = stops + 1
  /\ UNCHANGED <<node, made, compacts, acked, doubled, restarted, outputsSet>>

\* A stop.
LEMMA StopStops == ASSUME Stop PROVE Stopped
BY DEF Stop, Stopped

\* The operation that is next.
LEMMA NextOp ==
  ASSUME CallInv, todo # <<>>
  PROVE  /\ Len(todo) \in Nat /\ Len(todo) >= 1 /\ 1 \in DOMAIN todo /\ Head(todo) = todo[1] /\ Head(todo) \in Ops
         /\ Head(todo).op = "part" => Numbered(Head(todo).part)
         /\ Tail(todo) \in Seq(Ops) /\ Len(Tail(todo)) = Len(todo) - 1
         /\ \A i \in DOMAIN Tail(todo) : i + 1 \in DOMAIN todo /\ Tail(todo)[i] = todo[i + 1] /\ i + 1 # 1
         /\ \A i \in DOMAIN todo : i # 1 => i - 1 \in DOMAIN Tail(todo) /\ Tail(todo)[i - 1] = todo[i]
<1>1. todo \in Seq(Ops) /\ Len(todo) \in Nat
  BY DEF CallInv
<1>2. /\ Len(todo) >= 1 /\ Head(todo) = todo[1] /\ todo[1] \in Ops /\ 1 \in DOMAIN todo
      /\ Tail(todo) \in Seq(Ops) /\ Len(Tail(todo)) = Len(todo) - 1
      /\ \A i \in 1..Len(todo) - 1 : Tail(todo)[i] = todo[i + 1]
  BY <1>1
<1>3. Head(todo).op = "part" => Numbered(Head(todo).part)
  BY <1>2 DEF CallInv, Places
<1>4. ASSUME NEW i \in DOMAIN Tail(todo) PROVE i + 1 \in DOMAIN todo /\ Tail(todo)[i] = todo[i + 1] /\ i + 1 # 1
  BY <1>1, <1>2
<1>5. ASSUME NEW i \in DOMAIN todo, i # 1 PROVE i - 1 \in DOMAIN Tail(todo) /\ Tail(todo)[i - 1] = todo[i]
  <2>1. i - 1 \in 1..Len(todo) - 1 /\ (i - 1) + 1 = i
    BY <1>1, <1>5
  <2> QED BY <1>2, <2>1
<1> QED BY <1>1, <1>2, <1>3, <1>4, <1>5

----------------------------------------------------------------------------
(* Types and the call under way.                                           *)

\* What an addition leaves to write.
LEMMA AddsTodo ==
  ASSUME TypeInv, NEW m, Adds(m)
  PROVE  /\ todo' \in Seq(Ops) /\ Len(todo') \in {2, 3}
         /\ todo'[Len(todo')] = WriteCursor(OnlySeq(nextSeq + 1)) /\ Len(todo') \in DOMAIN todo'
         /\ todo'[Len(todo') - 1] = WritePart(m) /\ Len(todo') - 1 \in DOMAIN todo'
         /\ Len(todo') = 3 => todo'[1] = WriteMeta /\ rewriting'
         /\ Len(todo') = 2 => metaDone
         /\ DOMAIN todo' = 1..Len(todo')
         /\ \A i \in DOMAIN todo' : /\ todo'[i].op = "part" => todo'[i] = WritePart(m) /\ todo'[i].part = m
                                    /\ todo'[i].op = "cursor" => todo'[i].cursor = OnlySeq(nextSeq + 1)
                                    /\ todo'[i].op = "meta" => i = 1 /\ rewriting'
                                    /\ todo'[i].op # "delete"
<1>1. m \in Message /\ nextSeq + 1 \in Nat
  BY DEF Adds, TypeInv, MemInv
<1>2. /\ WritePart(m) \in Ops /\ WritePart(m).op = "part" /\ WritePart(m).part = m
      /\ WriteMeta \in Ops /\ WriteMeta.op = "meta"
      /\ WriteCursor(OnlySeq(nextSeq + 1)) \in Ops /\ WriteCursor(OnlySeq(nextSeq + 1)).op = "cursor"
      /\ WriteCursor(OnlySeq(nextSeq + 1)).cursor = OnlySeq(nextSeq + 1)
  BY <1>1, OpsAre, OnlySeqIs
<1> DEFINE p == WritePart(m)
           c == WriteCursor(OnlySeq(nextSeq + 1))
<1> HIDE DEF p, c
<1>3. CASE metaDone /\ ~rewriting' /\ todo' = <<p, c>>
  BY <1>2, <1>3 DEF p, c
<1>4. CASE rewriting' = TRUE /\ todo' = <<WriteMeta, p, c>>
  BY <1>2, <1>4 DEF p, c
<1>5. (metaDone /\ ~rewriting' /\ todo' = <<p, c>>) \/ (rewriting' = TRUE /\ todo' = <<WriteMeta, p, c>>)
  BY DEF Adds, p, c
<1> QED BY <1>3, <1>4, <1>5 DEF p, c

\* What has a number twice are messages.
LEMMA DoubledType ==
  ASSUME TypeInv, NEW m \in Message, m.id \in 1..MaxMessages PROVE Doubled(m) \subseteq 1..MaxMessages
<1>1. doubled \subseteq 1..MaxMessages /\ \A i \in DOMAIN messages : messages[i] \in Message
  BY DEF TypeInv, MemInv, CountInv
<1>2. \A i \in DOMAIN messages : Stands(messages[i]) \subseteq 1..MaxMessages
  BY <1>1, StandsType
<1> QED BY <1>1, <1>2 DEF Doubled

\* An addition is behind what there is.
LEMMA AddsMessages ==
  ASSUME TypeInv, NEW m, Adds(m)
  PROVE  /\ Len(messages) \in Nat /\ DOMAIN messages = 1..Len(messages)
         /\ messages' \in Seq(Message) /\ Len(messages') = Len(messages) + 1
         /\ DOMAIN messages' = 1..Len(messages) + 1
         /\ messages'[Len(messages) + 1] = m
         /\ \A i \in 1..Len(messages) : messages'[i] = messages[i]
<1>1. messages \in Seq(Message) /\ m \in Message /\ messages' = Append(messages, m)
  BY DEF TypeInv, MemInv, Adds
<1> QED BY <1>1

\* An addition keeps the types, and what is known of the call under way.
LEMMA AddsType ==
  ASSUME TypeInv, CallInv, NEW m, Adds(m), open' \in Seq(CallIds), values' \subseteq OutputKeys,
         outputsSet' \subseteq OutputKeys, node' \in 1..MaxNodes
  PROVE  TypeInv' /\ CallInv'
<1>1. /\ up /\ todo = <<>> /\ m \in Message /\ Numbered(m) /\ m.seq = nextSeq /\ Stands(m) = {made + 1}
      /\ nextSeq' = nextSeq + 1 /\ rewriting' \in BOOLEAN /\ metaDone' = TRUE
      /\ made < MaxMessages /\ made' = made + 1 /\ adding' = made + 1
      /\ doubled' = Doubled(m) /\ m.id = made + 1
      /\ UNCHANGED <<up, diskVars, compacts, stops, acked, lost, restarted>>
  BY DEF Adds
<1>2. nextSeq \in Nat /\ made \in 0..MaxMessages
  BY DEF TypeInv, MemInv, CountInv
<1>3. /\ Len(messages) \in Nat /\ DOMAIN messages = 1..Len(messages)
      /\ messages' \in Seq(Message) /\ Len(messages') = Len(messages) + 1
      /\ DOMAIN messages' = 1..Len(messages) + 1
      /\ messages'[Len(messages) + 1] = m
      /\ \A i \in 1..Len(messages) : messages'[i] = messages[i]
  BY AddsMessages
<1>4. /\ todo' \in Seq(Ops) /\ Len(todo') \in {2, 3}
      /\ todo'[Len(todo')] = WriteCursor(OnlySeq(nextSeq + 1)) /\ Len(todo') \in DOMAIN todo'
      /\ Len(todo') = 2 => metaDone
      /\ Len(todo') = 3 => todo'[1] = WriteMeta /\ rewriting'
      /\ \A i \in DOMAIN todo' : /\ todo'[i].op = "part" => todo'[i] = WritePart(m) /\ todo'[i].part = m
                                 /\ todo'[i].op = "meta" => i = 1 /\ rewriting'
                                 /\ todo'[i].op # "delete"
  BY AddsTodo
<1>5. MemInv'
  <2>1. ASSUME NEW i \in DOMAIN messages'
        PROVE  Numbered(messages'[i]) /\ (messages'[i].seq = -1 => i = 1)
    <3>1. CASE i \in 1..Len(messages)
      BY <1>3, <3>1 DEF TypeInv, MemInv
    <3>2. CASE i = Len(messages) + 1
      BY <1>1, <1>2, <1>3, <3>2
    <3> QED BY <1>3, <3>1, <3>2
  <2> QED BY <1>1, <1>2, <1>3, <2>1 DEF MemInv
<1>6. DiskInv'
  BY <1>1, SameDisk DEF TypeInv, DiskInv, diskVars
<1>7. CountInv'
  <2>1. doubled' \subseteq 1..MaxMessages
    <3>1. m.id \in 1..MaxMessages
      BY <1>1, <1>2, LimitsAreNumbers
    <3>2. Doubled(m) \subseteq 1..MaxMessages
      BY <1>1, <3>1, DoubledType
    <3> QED BY <1>1, <3>2
  <2>2. /\ {up', metaDone', rewriting', meta', restarted'} \subseteq BOOLEAN
        /\ compacts' \in 0..MaxCompacts /\ stops' \in 0..MaxStops
    <3>1. up \in BOOLEAN /\ meta \in BOOLEAN /\ restarted \in BOOLEAN
      BY DEF TypeInv, CountInv
    <3>2. up' = up /\ meta' = meta /\ restarted' = restarted
      BY <1>1 DEF diskVars
    <3>3. {up', metaDone', rewriting', meta', restarted'} \subseteq BOOLEAN
      BY <1>1, <3>1, <3>2
    <3>4. compacts' \in 0..MaxCompacts /\ stops' \in 0..MaxStops
      BY <1>1 DEF TypeInv, CountInv
    <3> QED BY <3>3, <3>4
  <2>3. made' \in 0..MaxMessages /\ adding' \in 0..made'
    BY <1>1, <1>2, LimitsAreNumbers
  <2>4. acked' \subseteq 1..made' /\ lost' \subseteq 1..made' /\ adding' \notin acked'
    <3>1. acked' = acked /\ lost' = lost /\ acked \subseteq 1..made /\ lost \subseteq 1..made
      BY <1>1 DEF TypeInv, CountInv
    <3>2. \A k \in 1..made : k \in 1..made' /\ k # adding'
      BY <1>1, <1>2
    <3> QED BY <3>1, <3>2
  <2> QED BY <2>1, <2>2, <2>3, <2>4 DEF CountInv
<1>8. todo' # <<>> /\ up'
  BY <1>1, <1>4
<1>9. \A i \in Places("delete")' \cup Places("meta")' : i = 1 /\ rewriting'
  BY <1>4 DEF Places
<1>10. ASSUME NEW i \in Places("part")'
       PROVE  /\ Numbered(todo'[i].part) /\ \E j \in DOMAIN messages' : messages'[j] = todo'[i].part
              /\ Stands(todo'[i].part) = {adding'}
  <2>1. todo'[i].part = m
    BY <1>4 DEF Places
  <2>2. Len(messages) + 1 \in DOMAIN messages'
    BY <1>3
  <2> QED BY <1>1, <1>3, <2>1, <2>2
<1>11. Places("cursor")' # {}
  <2>1. todo'[Len(todo')].op = "cursor"
    BY <1>2, <1>4, OnlySeqIs, OpsAre
  <2> QED BY <1>4, <2>1 DEF Places
<1>12. adding' \in Covered(messages')
  <2>1. Len(messages) + 1 \in DOMAIN messages' /\ adding' \in Stands(messages'[Len(messages) + 1])
    BY <1>1, <1>3
  <2> QED BY <2>1 DEF Covered
<1>13. metaDone => meta
  BY <1>1 DEF CallInv, Places
<1>14. ~meta' => Places("meta")' # {} /\ Len(todo') > 1
  <2>1. SUFFICES ASSUME ~meta' PROVE Places("meta")' # {} /\ Len(todo') > 1
    OBVIOUS
  <2>2. Len(todo') = 3 /\ todo'[1] = WriteMeta
    BY <1>1, <1>4, <1>13, <2>1 DEF diskVars
  <2>3. 1 \in DOMAIN todo' /\ todo'[1].op = "meta"
    BY <1>4, <2>2, OpsAre
  <2> QED BY <2>2, <2>3 DEF Places
<1>15. ~meta' => acked' \subseteq lost'
  BY <1>1 DEF CallInv, diskVars
<1>16. CallInv'
  BY <1>4, <1>8, <1>9, <1>10, <1>11, <1>12, <1>14, <1>15 DEF CallInv
<1> QED BY <1>5, <1>6, <1>7, <1>16 DEF TypeInv

\* What a compaction leaves to write.
LEMMA ShortensTodo ==
  ASSUME TypeInv, NEW m, NEW g, NEW r, Shortens(m, g, r)
  PROVE  /\ todo' \in Seq(Ops) /\ DOMAIN todo' = 1..Len(todo') /\ Len(todo') >= 3 /\ Len(todo') \in Nat
         /\ nextSeq' \in Nat
         /\ \A i \in DOMAIN todo' :
              /\ todo'[i].op = "part" => \E j \in DOMAIN messages' : messages'[j] = todo'[i].part
              /\ todo'[i].op = "cursor" => i = Len(todo') /\ todo'[i].cursor = OnlySeq(nextSeq')
              /\ todo'[i].op # "meta"
              /\ todo'[i].op = "delete" =>
                   i = 1 /\ todo'[i].before = IF r > Len(messages) THEN nextSeq' ELSE messages[r].seq
         /\ todo'[1].op = "delete"
         /\ todo'[2].op = "part" /\ todo'[2].part = m
         /\ todo'[Len(todo')].op = "cursor" /\ todo'[Len(todo')].cursor = OnlySeq(nextSeq')
         /\ \A i \in 2..Len(messages') :
              g[i] >= r \/ \E k \in DOMAIN todo' : todo'[k].op = "part" /\ todo'[k].part = messages'[i]
<1>1. /\ todo' \in Seq(Ops) /\ Len(todo') >= 3 /\ m \in Message
      /\ todo'[1] = Delete(IF r > Len(messages) THEN nextSeq' ELSE messages[r].seq)
      /\ todo'[2] = WritePart(m)
      /\ todo'[Len(todo')] = WriteCursor(OnlySeq(nextSeq'))
      /\ \A k \in 3..Len(todo') - 1 : \E i \in 2..Len(messages') : todo'[k] = WritePart(messages'[i])
      /\ \A i \in 2..Len(messages') :
           g[i] >= r \/ \E k \in 3..Len(todo') - 1 : todo'[k] = WritePart(messages'[i])
      /\ messages' \in Seq(Message) /\ messages'[1] = m /\ Len(messages') >= 1
      /\ r \in 1..Len(messages) + 1 /\ nextSeq' \in {nextSeq, nextSeq + 1}
  BY SMTT(30) DEF Shortens
<1>2. /\ nextSeq' \in Nat /\ Len(messages) \in Nat /\ messages \in Seq(Message) /\ Len(messages') \in Nat
      /\ DOMAIN messages' = 1..Len(messages') /\ Len(todo') \in Nat /\ DOMAIN todo' = 1..Len(todo')
  BY <1>1 DEF TypeInv, MemInv
<1> DEFINE before == IF r > Len(messages) THEN nextSeq' ELSE messages[r].seq
<1>3. before \in Int
  <2>1. ~(r > Len(messages)) => messages[r] \in Message
    BY <1>1, <1>2
  <2> QED BY <1>2, <2>1 DEF Message
<1> HIDE DEF before
<1>4. /\ todo'[1].op = "delete" /\ todo'[1].before = before
      /\ todo'[2].op = "part" /\ todo'[2].part = m
      /\ todo'[Len(todo')].op = "cursor" /\ todo'[Len(todo')].cursor = OnlySeq(nextSeq')
  BY <1>1, <1>2, <1>3, OpsAre, OnlySeqIs DEF before
<1>5. ASSUME NEW k \in 3..Len(todo') - 1
      PROVE  todo'[k].op = "part" /\ \E i \in 2..Len(messages') : todo'[k].part = messages'[i]
  <2>1. PICK i \in 2..Len(messages') : todo'[k] = WritePart(messages'[i])
    BY <1>1
  <2>2. messages'[i] \in Message
    BY <1>1, <1>2
  <2> QED BY <2>1, <2>2, OpsAre
<1>6. ASSUME NEW i \in 2..Len(messages'), ~(g[i] >= r)
      PROVE  \E k \in DOMAIN todo' : todo'[k].op = "part" /\ todo'[k].part = messages'[i]
  <2>1. PICK k \in 3..Len(todo') - 1 : todo'[k] = WritePart(messages'[i])
    BY <1>1, <1>6
  <2>2. messages'[i] \in Message /\ k \in DOMAIN todo'
    BY <1>1, <1>2
  <2> QED BY <2>1, <2>2, OpsAre
<1>7. ASSUME NEW i \in DOMAIN todo'
      PROVE  /\ todo'[i].op = "part" => \E j \in DOMAIN messages' : messages'[j] = todo'[i].part
             /\ todo'[i].op = "cursor" => i = Len(todo') /\ todo'[i].cursor = OnlySeq(nextSeq')
             /\ todo'[i].op # "meta"
             /\ todo'[i].op = "delete" => i = 1 /\ todo'[i].before = before
  <2>1. i = 1 \/ i = 2 \/ i \in 3..Len(todo') - 1 \/ i = Len(todo')
    BY <1>1, <1>2
  <2>2. 1 \in DOMAIN messages' /\ \A j \in 2..Len(messages') : j \in DOMAIN messages'
    BY <1>1, <1>2
  <2>3. CASE i = 1
    BY <1>4, <2>3
  <2>4. CASE i = 2
    BY <1>1, <1>4, <2>2, <2>4
  <2>5. CASE i \in 3..Len(todo') - 1
    BY <1>5, <2>2, <2>5
  <2>6. CASE i = Len(todo')
    BY <1>4, <2>6
  <2> QED BY <2>1, <2>3, <2>4, <2>5, <2>6
<1> QED BY <1>1, <1>2, <1>4, <1>6, <1>7 DEF before

\* And of the messages.
LEMMA ShortensMessages ==
  ASSUME TypeInv, NEW m, NEW g, NEW r, Shortens(m, g, r)
  PROVE  /\ messages' \in Seq(Message) /\ DOMAIN messages' = 1..Len(messages') /\ Len(messages') \in Nat
         /\ Len(messages') >= 1 /\ messages'[1] = m /\ DOMAIN messages = 1..Len(messages) /\ Len(messages) \in Nat
         /\ \A i \in 2..Len(messages') : /\ g[i] \in DOMAIN messages /\ messages'[i] = messages[g[i]]
                                         /\ messages'[i].seq \in Nat /\ Numbered(messages'[i])
         /\ \A i, j \in 2..Len(messages') : i < j => g[i] < g[j]
         /\ Numbered(m)
<1>1. /\ m \in Message /\ m.kind = "summary" /\ m.calls = {}
      /\ messages' \in Seq(Message) /\ Len(messages') >= 1 /\ messages'[1] = m
      /\ g \in [2..Len(messages') -> DOMAIN messages]
      /\ \A i, j \in 2..Len(messages') : i < j => g[i] < g[j]
      /\ \A i \in 2..Len(messages') : messages'[i] = messages[g[i]]
      /\ Len(messages') > 1 => m.seq = messages'[2].seq - 1
      /\ Len(messages') > 1 => g[2] > 1 \/ messages[g[2]].calls # {} \/ messages[g[2]].kind = "tool"
      /\ Len(messages') = 1 => m.seq = nextSeq
  BY SMTT(30) DEF Shortens
<1>2. /\ messages \in Seq(Message) /\ DOMAIN messages = 1..Len(messages) /\ Len(messages) \in Nat
      /\ Len(messages') \in Nat /\ nextSeq \in Nat /\ DOMAIN messages' = 1..Len(messages')
      /\ \A i \in DOMAIN messages : Numbered(messages[i]) /\ (messages[i].seq = -1 => i = 1)
  BY <1>1 DEF TypeInv, MemInv
<1>3. ASSUME NEW i \in 2..Len(messages')
      PROVE  /\ g[i] \in DOMAIN messages /\ messages'[i] = messages[g[i]]
             /\ messages'[i].seq \in Nat /\ Numbered(messages'[i])
  <2>1. g[i] \in 1..Len(messages) /\ messages'[i] = messages[g[i]] /\ messages[g[i]] \in Message
    BY <1>1, <1>2
  <2>2. Numbered(messages[g[i]]) /\ (messages[g[i]].seq = -1 => g[i] = 1) /\ messages[g[i]].seq \in Int
    BY <1>2, <2>1 DEF Message
  <2>3. ASSUME g[i] = 1 PROVE messages[g[i]].seq # -1
    <3>1. i = 2
      <4>1. i # 2 => 2 \in 2..Len(messages') /\ 2 < i
        BY <1>2
      <4>2. i # 2 => g[2] < g[i] /\ g[2] \in 1..Len(messages)
        BY <1>1, <1>2, <4>1
      <4> QED BY <1>2, <2>3, <4>2
    <3>2. messages[g[i]].calls # {} \/ messages[g[i]].kind = "tool"
      BY <1>1, <1>2, <2>3, <3>1
    <3> QED BY <2>2, <3>2 DEF Numbered
  <2> QED BY <1>2, <2>1, <2>2, <2>3 DEF Numbered
<1>4. Numbered(m)
  <2>1. CASE Len(messages') > 1
    <3>1. 2 \in 2..Len(messages') /\ m.seq = messages'[2].seq - 1
      BY <1>1, <1>2, <2>1
    <3>2. messages'[2].seq \in Nat
      BY <1>3, <3>1
    <3> QED BY <1>1, <3>1, <3>2 DEF Numbered
  <2>2. CASE Len(messages') = 1
    BY <1>1, <1>2, <2>2 DEF Numbered
  <2> QED BY <1>1, <1>2, <2>1, <2>2
<1> QED BY <1>1, <1>2, <1>3, <1>4

\* A compaction keeps them.
LEMMA ShortensType ==
  ASSUME TypeInv, CallInv, NEW m, NEW g, NEW r, Shortens(m, g, r) PROVE TypeInv' /\ CallInv'
<1>1. /\ up /\ todo = <<>> /\ open = <<>> /\ rewriting' = TRUE /\ compacts < MaxCompacts /\ compacts' = compacts + 1
      /\ UNCHANGED <<up, metaDone, open, values, adding, diskVars, node, made, stops, acked, lost,
                     doubled, restarted, outputsSet>>
  BY SMTT(30) DEF Shortens
<1>2. /\ messages' \in Seq(Message) /\ DOMAIN messages' = 1..Len(messages') /\ Len(messages') \in Nat
      /\ Len(messages') >= 1 /\ messages'[1] = m
      /\ \A i \in 2..Len(messages') : messages'[i].seq \in Nat /\ Numbered(messages'[i])
      /\ Numbered(m)
  BY ShortensMessages
<1>3. /\ todo' \in Seq(Ops) /\ DOMAIN todo' = 1..Len(todo') /\ Len(todo') >= 3 /\ nextSeq' \in Nat
      /\ \A i \in DOMAIN todo' :
           /\ todo'[i].op = "part" => \E j \in DOMAIN messages' : messages'[j] = todo'[i].part
           /\ todo'[i].op # "meta" /\ (todo'[i].op = "delete" => i = 1)
      /\ todo'[Len(todo')].op = "cursor" /\ Len(todo') \in DOMAIN todo'
  BY ShortensTodo
<1>4. ASSUME NEW i \in DOMAIN messages' PROVE Numbered(messages'[i]) /\ (messages'[i].seq = -1 => i = 1)
  <2>1. i = 1 \/ i \in 2..Len(messages')
    BY <1>2
  <2>2. i \in 2..Len(messages') => messages'[i].seq # -1
    BY <1>2
  <2> QED BY <1>2, <2>1, <2>2
<1>5. MemInv'
  BY <1>1, <1>2, <1>3, <1>4 DEF MemInv, TypeInv
<1>6. DiskInv'
  BY <1>1, SameDisk DEF TypeInv, DiskInv, diskVars
<1>7. CountInv'
  <2>1. compacts' \in 0..MaxCompacts
    BY <1>1, LimitsAreNumbers DEF TypeInv, CountInv
  <2> QED BY <1>1, <2>1 DEF TypeInv, CountInv, diskVars
<1>8. adding = 0 /\ (metaDone => meta)
  BY <1>1 DEF CallInv, Places
<1>9. \A i \in Places("delete")' \cup Places("meta")' : i = 1 /\ rewriting'
  BY <1>1, <1>3 DEF Places
<1>10. ASSUME NEW i \in Places("part")'
       PROVE  Numbered(todo'[i].part) /\ \E j \in DOMAIN messages' : messages'[j] = todo'[i].part
  <2>1. PICK j \in DOMAIN messages' : messages'[j] = todo'[i].part
    BY <1>3 DEF Places
  <2> QED BY <1>4, <2>1
<1>11. up' /\ todo' # <<>> /\ adding' = 0 /\ open' = <<>> /\ (metaDone' => meta')
  BY <1>1, <1>3, <1>8 DEF diskVars
<1>12. ~meta' => acked' \subseteq lost'
  BY <1>1 DEF CallInv, diskVars
<1>13. CallInv'
  BY <1>1, <1>3, <1>9, <1>10, <1>11, <1>12 DEF CallInv
<1> QED BY <1>5, <1>6, <1>7, <1>13 DEF TypeInv

\* A write of the cursor keeps them.
LEMMA MarksType == ASSUME TypeInv, CallInv, NEW c, Marks(c) PROVE TypeInv' /\ CallInv'
<1>1. /\ up /\ todo = <<>> /\ c \in Cursors /\ todo' = <<WriteCursor(c)>> /\ values' \subseteq OutputKeys
      /\ UNCHANGED <<up, messages, nextSeq, metaDone, open, adding, rewriting, diskVars, node, made, compacts,
                     stops, acked, lost, doubled, restarted, outputsSet>>
  BY DEF Marks
<1>2. MemInv'
  BY <1>1 DEF TypeInv, MemInv
<1>3. DiskInv'
  BY <1>1, SameDisk DEF TypeInv, DiskInv, diskVars
<1>4. CountInv'
  BY <1>1 DEF TypeInv, CountInv, diskVars
<1>5. WriteCursor(c) \in Ops /\ WriteCursor(c).op = "cursor"
  BY <1>1, OpsAre
<1>6. todo' \in Seq(Ops) /\ Len(todo') = 1 /\ DOMAIN todo' = 1..1 /\ todo'[1].op = "cursor"
  <2> DEFINE w == WriteCursor(c)
  <2> HIDE DEF w
  <2>1. todo' = <<w>> /\ w \in Ops /\ w.op = "cursor"
    BY <1>1, <1>5 DEF w
  <2> QED BY <2>1
<1>7. /\ Places("delete")' = {} /\ Places("meta")' = {} /\ Places("part")' = {} /\ Places("cursor")' # {}
  BY <1>6 DEF Places
<1>8. adding = 0 /\ ~rewriting /\ (metaDone => meta) /\ (~meta => acked \subseteq lost)
  BY <1>1 DEF CallInv, Places
<1>9. CallInv'
  BY <1>1, <1>6, <1>7, <1>8 DEF CallInv, diskVars
<1> QED BY <1>2, <1>3, <1>4, <1>9 DEF TypeInv

\* A pruning keeps them.
LEMMA PruneType == ASSUME TypeInv, CallInv, Prune PROVE TypeInv' /\ CallInv'
<1>1. PICK i \in DOMAIN messages : todo' = <<WritePart(messages[i])>>
  BY DEF Prune
<1>2. /\ up /\ todo = <<>> /\ open = <<>> /\ compacts < MaxCompacts /\ rewriting' = TRUE /\ compacts' = compacts + 1
      /\ UNCHANGED <<up, memVars, adding, diskVars, node, made, stops, acked, lost, doubled,
                     restarted, outputsSet>>
  BY DEF Prune, Idle
<1>3. MemInv'
  BY <1>2 DEF TypeInv, MemInv, memVars
<1>4. DiskInv'
  BY <1>2, SameDisk DEF TypeInv, DiskInv, diskVars
<1>5. CountInv'
  <2>1. compacts' \in 0..MaxCompacts
    BY <1>2, LimitsAreNumbers DEF TypeInv, CountInv
  <2> QED BY <1>2, <2>1 DEF TypeInv, CountInv, diskVars, memVars
<1>6. messages[i] \in Message /\ Numbered(messages[i])
  BY DEF TypeInv, MemInv
<1>7. /\ todo' \in Seq(Ops) /\ Len(todo') = 1 /\ DOMAIN todo' = 1..1 /\ todo' # <<>>
      /\ todo'[1].op = "part" /\ todo'[1].part = messages[i]
  <2> DEFINE w == WritePart(messages[i])
  <2>1. w \in Ops /\ w.op = "part" /\ w.part = messages[i]
    BY <1>6, OpsAre
  <2>2. todo' = <<w>>
    BY <1>1
  <2> HIDE DEF w
  <2> QED BY <2>1, <2>2
<1>8. Places("delete")' = {} /\ Places("meta")' = {} /\ Places("part")' = {1}
  BY <1>7 DEF Places
<1>9. adding = 0 /\ (metaDone => meta) /\ (~meta => acked \subseteq lost)
  BY <1>2 DEF CallInv, Places
<1>10. \E j \in DOMAIN messages' : messages'[j] = todo'[1].part
  BY <1>2, <1>7 DEF memVars
<1>11. Numbered(todo'[1].part)
  BY <1>6, <1>7
<1>12. /\ up' /\ adding' = 0 /\ open' = <<>> /\ (metaDone' => meta') /\ (~meta' => acked' \subseteq lost')
       /\ rewriting' /\ todo' # <<>>
  <2>1. rewriting' = TRUE /\ open' = <<>>
    BY <1>2 DEF memVars
  <2>2. up' = up /\ adding' = adding /\ metaDone' = metaDone /\ meta' = meta /\ acked' = acked /\ lost' = lost
    BY <1>2 DEF memVars, diskVars
  <2> QED BY <1>2, <1>7, <1>9, <2>1, <2>2
<1>13. CallInv'
  BY <1>7, <1>8, <1>10, <1>11, <1>12 DEF CallInv
<1> QED BY <1>3, <1>4, <1>5, <1>13 DEF TypeInv

\* What Write does besides the file operation.
Writes ==
  /\ up /\ todo # <<>> /\ Perform(todo[1]) /\ todo' = Tail(todo)
  /\ IF Len(todo) = 1 THEN acked' = acked \cup ({adding} \ {0}) /\ adding' = 0 /\ rewriting' = FALSE
     ELSE UNCHANGED <<acked, adding, rewriting>>
  /\ UNCHANGED <<up, memVars, node, made, compacts, stops, lost, doubled, restarted>>

\* A write is this.
LEMMA WriteWrites == ASSUME CallInv, Write PROVE Writes
<1>1. Head(todo) = todo[1]
  BY NextOp DEF Write
<1> QED BY <1>1 DEF Write, Writes

\* A write keeps the types, and what is known of the call under way.
LEMMA WriteType == ASSUME TypeInv, CallInv, Write PROVE TypeInv' /\ CallInv'
<1>1. /\ up /\ todo # <<>> /\ Perform(todo[1]) /\ todo' = Tail(todo)
      /\ IF Len(todo) = 1 THEN acked' = acked \cup ({adding} \ {0}) /\ adding' = 0 /\ rewriting' = FALSE
         ELSE UNCHANGED <<acked, adding, rewriting>>
      /\ UNCHANGED <<up, memVars, node, made, compacts, stops, lost, doubled, restarted>>
  BY WriteWrites DEF Writes
<1> DEFINE f == todo[1]
<1>2. /\ Len(todo) \in Nat /\ Len(todo) >= 1 /\ 1 \in DOMAIN todo /\ f \in Ops
      /\ f.op = "part" => Numbered(f.part)
      /\ todo' \in Seq(Ops) /\ Len(todo') = Len(todo) - 1
      /\ \A i \in DOMAIN todo' : i + 1 \in DOMAIN todo /\ todo'[i] = todo[i + 1] /\ i + 1 # 1
      /\ \A i \in DOMAIN todo : i # 1 => i - 1 \in DOMAIN todo' /\ todo'[i - 1] = todo[i]
  BY <1>1, NextOp
<1>3. Perform(f)
  BY <1>1
<1>4. /\ cursor' = IF f.op = "cursor" THEN f.cursor ELSE cursor
      /\ meta' = (f.op = "meta" \/ meta)
  BY <1>3 DEF Perform
<1> HIDE DEF f
<1>5. DiskInv' /\ meta' \in BOOLEAN
  <2>1. DiskInv /\ meta \in BOOLEAN
    BY DEF TypeInv, CountInv
  <2> QED BY <1>2, <1>3, <2>1, PerformDisk
<1>6. MemInv'
  BY <1>1 DEF TypeInv, MemInv, memVars
<1>7. \A i \in Places("delete") \cup Places("meta") : i = 1 /\ rewriting
  BY DEF CallInv
<1>8. Places("delete")' = {} /\ Places("meta")' = {}
  <2>1. ASSUME NEW i \in DOMAIN todo' PROVE todo'[i].op # "delete" /\ todo'[i].op # "meta"
    <3>1. i + 1 \in DOMAIN todo /\ todo'[i] = todo[i + 1] /\ i + 1 # 1
      BY <1>2
    <3> QED BY <1>7, <3>1 DEF Places
  <2> QED BY <2>1 DEF Places
<1>9. ~meta /\ adding # 0 => Places("meta") # {} /\ Len(todo) > 1
  BY DEF CallInv
<1>10. Places("meta") # {} => f.op = "meta"
  BY <1>7 DEF Places, f
<1>11. CountInv'
  <2>1. outputsSet' \subseteq OutputKeys
    BY DEF Write, TypeInv, CountInv, MemInv
  <2>2. acked \subseteq 1..made /\ adding \in 0..made /\ adding \notin acked
    BY DEF TypeInv, CountInv
  <2>3. acked' \subseteq 1..made /\ adding' \in 0..made /\ adding' \notin acked'
    <3>1. made \in Nat /\ 0 \in 0..made /\ 0 \notin acked
      BY <2>2 DEF TypeInv, CountInv
    <3>2. CASE Len(todo) = 1
      <4>1. acked' = acked \cup ({adding} \ {0}) /\ adding' = 0
        BY <1>1, <3>2
      <4>2. adding # 0 => adding \in 1..made
        BY <2>2, <3>1
      <4> QED BY <2>2, <3>1, <4>1, <4>2
    <3>3. CASE Len(todo) # 1
      <4>1. acked' = acked /\ adding' = adding /\ made' = made
        BY <1>1, <3>3
      <4> QED BY <2>2, <4>1
    <3> QED BY <3>2, <3>3
  <2>4. {up', metaDone', rewriting', meta', restarted'} \subseteq BOOLEAN
    <3>1. up \in BOOLEAN /\ metaDone \in BOOLEAN /\ rewriting \in BOOLEAN /\ restarted \in BOOLEAN
      BY DEF TypeInv, CountInv
    <3>2. up' \in BOOLEAN /\ metaDone' \in BOOLEAN /\ rewriting' \in BOOLEAN /\ restarted' \in BOOLEAN
      BY <1>1, <3>1 DEF memVars
    <3> QED BY <1>5, <3>2
  <2> QED BY <1>1, <2>1, <2>3, <2>4 DEF TypeInv, CountInv
<1>12. ASSUME NEW i \in Places("part")'
       PROVE  /\ Numbered(todo'[i].part) /\ \E j \in DOMAIN messages' : messages'[j] = todo'[i].part
              /\ ~rewriting => Stands(todo'[i].part) = {adding}
  <2>1. i + 1 \in Places("part") /\ todo'[i] = todo[i + 1]
    BY <1>2 DEF Places
  <2>2. Numbered(todo[i + 1].part) /\ \E j \in DOMAIN messages : messages[j] = todo[i + 1].part
    BY <2>1 DEF CallInv
  <2>3. ~rewriting => Stands(todo[i + 1].part) = {adding}
    BY <2>1 DEF CallInv
  <2> QED BY <1>1, <2>1, <2>2, <2>3 DEF memVars
<1>13. Places("part")' # {} => Len(todo) # 1
  BY <1>2 DEF Places
<1>14. open' # <<>> /\ cursor' = NoCursor => Places("cursor")' # {}
  <2>1. SUFFICES ASSUME open # <<>>, cursor' = NoCursor PROVE Places("cursor")' # {}
    BY <1>1 DEF memVars
  <2>2. f.op # "cursor" /\ cursor = NoCursor
    <3>1. f.op = "cursor" => f.cursor \in Cursors
      BY <1>2, OpIs
    <3>2. NoCursor \notin Cursors
      BY DEF NoCursor, Cursors
    <3> QED BY <1>4, <2>1, <3>1, <3>2
  <2>3. PICK i \in DOMAIN todo : todo[i].op = "cursor"
    BY <2>1, <2>2 DEF CallInv, Places
  <2>4. i # 1
    BY <2>2, <2>3 DEF f
  <2>5. i - 1 \in DOMAIN todo' /\ todo'[i - 1] = todo[i]
    BY <1>2, <2>4
  <2> QED BY <2>3, <2>5 DEF Places
<1>15. adding' # 0 => adding' \in Covered(messages') /\ meta'
  <2>1. adding # 0 => adding \in Covered(messages)
    BY DEF CallInv
  <2> QED BY <1>1, <1>4, <1>9, <1>10, <2>1 DEF memVars
<1>16. up' /\ metaDone' => meta'
  <2>1. up /\ metaDone /\ ~meta => Places("meta") # {}
    BY DEF CallInv
  <2> QED BY <1>1, <1>4, <1>10, <2>1 DEF memVars
<1>17. ~meta' => acked' \subseteq lost'
  <2>1. SUFFICES ASSUME ~meta' PROVE acked' \subseteq lost'
    OBVIOUS
  <2>2. ~meta /\ adding = 0
    BY <1>4, <1>9, <1>10, <2>1
  <2>3. acked \subseteq lost
    BY <2>2 DEF CallInv
  <2> QED BY <1>1, <2>2, <2>3
<1>18. todo' = <<>> => adding' = 0 /\ ~rewriting'
  BY <1>1, <1>2
<1>19. ~rewriting' => \A i \in Places("part")' : Stands(todo'[i].part) = {adding'}
  <2>1. CASE Len(todo) = 1
    BY <1>13, <2>1
  <2>2. CASE Len(todo) # 1
    <3>1. rewriting' = rewriting /\ adding' = adding
      BY <1>1, <2>2
    <3> QED BY <1>12, <3>1
  <2> QED BY <2>1, <2>2
<1>20. up'
  BY <1>1
<1>21. CallInv'
  BY <1>2, <1>8, <1>12, <1>14, <1>15, <1>16, <1>17, <1>18, <1>19, <1>20 DEF CallInv
<1> QED BY <1>5, <1>6, <1>11, <1>21 DEF TypeInv

----------------------------------------------------------------------------
(* Stops.                                                                  *)

\* A stop keeps them.
LEMMA StoppedType ==
  ASSUME TypeInv, CallInv, Stopped, DiskInv', meta' \in BOOLEAN, lost' \subseteq 1..made,
         ~meta' => acked \subseteq lost'
  PROVE  TypeInv' /\ CallInv'
<1>1. /\ up' = FALSE /\ todo' = <<>> /\ adding' = 0 /\ rewriting' = FALSE
      /\ messages' = <<>> /\ nextSeq' = 0 /\ metaDone' = FALSE /\ open' = <<>> /\ values' = {}
      /\ stops < MaxStops /\ stops' = stops + 1
      /\ UNCHANGED <<node, made, compacts, acked, doubled, restarted, outputsSet>>
  BY DEF Stopped
<1>2. MemInv'
  BY <1>1 DEF MemInv
<1>3. CountInv'
  <2>1. stops' \in 0..MaxStops
    BY <1>1, LimitsAreNumbers DEF TypeInv, CountInv
  <2>2. adding' \in 0..made' /\ adding' \notin acked'
    BY <1>1 DEF TypeInv, CountInv
  <2>3. restarted' \in BOOLEAN
    BY <1>1 DEF TypeInv, CountInv
  <2>4. {up', metaDone', rewriting', meta', restarted'} \subseteq BOOLEAN
    BY <1>1, <2>3
  <2> QED BY <1>1, <2>1, <2>2, <2>4 DEF TypeInv, CountInv
<1>4. Places("delete")' = {} /\ Places("meta")' = {} /\ Places("part")' = {} /\ todo' \in Seq(Ops)
  BY <1>1 DEF Places
<1>5. CallInv'
  BY <1>1, <1>4 DEF CallInv
<1> QED BY <1>2, <1>3, <1>5 DEF TypeInv

\* What a cancellation leaves of the files.
LEMMA CancelDisk ==
  ASSUME TypeInv, CallInv, Cancel
  PROVE  /\ Stopped /\ up
         /\ \/ todo = <<>> /\ UNCHANGED diskVars
            \/ todo # <<>> /\ todo[1] \in Ops /\ Perform(todo[1])
         /\ lost' = IF rewriting THEN lost \cup (acked \ OnDisk(parts')) ELSE lost
<1>1. todo # <<>> => Head(todo) = todo[1] /\ todo[1] \in Ops
  BY NextOp
<1> QED BY <1>1, StopStops DEF Cancel

\* And a crash.
LEMMA CrashDisk ==
  ASSUME TypeInv, CallInv, Crash
  PROVE  /\ Stopped /\ up
         /\ \/ todo = <<>> /\ UNCHANGED diskVars
            \/ todo # <<>> /\ todo[1] \in Ops /\ Tear(todo[1])
         /\ lost' = IF rewriting THEN lost \cup (IF meta' THEN acked \ OnDisk(parts') ELSE acked) ELSE lost
<1>1. todo # <<>> => Head(todo) = todo[1] /\ todo[1] \in Ops
  BY NextOp
<1> QED BY <1>1, StopStops DEF Crash

\* A cancellation keeps the types.
LEMMA CancelType == ASSUME TypeInv, CallInv, Cancel PROVE TypeInv' /\ CallInv'
<1>1. /\ Stopped
      /\ \/ todo = <<>> /\ UNCHANGED diskVars
         \/ todo # <<>> /\ todo[1] \in Ops /\ Perform(todo[1])
      /\ lost' = IF rewriting THEN lost \cup (acked \ OnDisk(parts')) ELSE lost
  BY CancelDisk
<1>2. DiskInv /\ meta \in BOOLEAN /\ acked \subseteq 1..made /\ lost \subseteq 1..made
  BY DEF TypeInv, CountInv
<1>3. lost' \subseteq 1..made /\ lost \subseteq lost'
  BY <1>1, <1>2
<1>4. DiskInv' /\ meta' \in BOOLEAN /\ (meta => meta')
  <2>1. CASE todo = <<>> /\ UNCHANGED diskVars
    BY <1>2, <2>1, SameDisk DEF DiskInv, diskVars
  <2>2. CASE todo # <<>> /\ todo[1] \in Ops /\ Perform(todo[1])
    <3>1. todo[1].op = "part" => Numbered(todo[1].part)
      BY <2>2, NextOp
    <3>2. meta => meta'
      BY <2>2 DEF Perform
    <3> QED BY <1>2, <2>2, <3>1, <3>2, PerformDisk
  <2> QED BY <1>1, <2>1, <2>2
<1>5. ~meta' => acked \subseteq lost'
  BY <1>3, <1>4 DEF CallInv
<1> QED BY <1>1, <1>3, <1>4, <1>5, StoppedType

\* A crash keeps them.
LEMMA CrashType == ASSUME TypeInv, CallInv, Crash PROVE TypeInv' /\ CallInv'
<1>1. /\ Stopped
      /\ \/ todo = <<>> /\ UNCHANGED diskVars
         \/ todo # <<>> /\ todo[1] \in Ops /\ Tear(todo[1])
      /\ lost' = IF rewriting THEN lost \cup (IF meta' THEN acked \ OnDisk(parts') ELSE acked) ELSE lost
  BY CrashDisk
<1>2. DiskInv /\ meta \in BOOLEAN /\ acked \subseteq 1..made /\ lost \subseteq 1..made
  BY DEF TypeInv, CountInv
<1>3. lost' \subseteq 1..made /\ lost \subseteq lost'
  BY <1>1, <1>2
<1>4. DiskInv' /\ meta' \in BOOLEAN /\ (~meta' => ~meta \/ rewriting)
  <2>1. CASE todo = <<>> /\ UNCHANGED diskVars
    BY <1>2, <2>1, SameDisk DEF DiskInv, diskVars
  <2>2. CASE todo # <<>> /\ todo[1] \in Ops /\ Tear(todo[1])
    <3>1. DiskInv' /\ meta' \in BOOLEAN /\ (meta' # meta => todo[1].op = "meta" /\ ~meta')
      BY <1>2, <2>2, TearDisk
    <3>2. todo[1].op = "meta" => rewriting
      BY <2>2, NextOp DEF CallInv, Places
    <3> QED BY <3>1, <3>2
  <2> QED BY <1>1, <2>1, <2>2
<1>5. ~meta' => acked \subseteq lost'
  BY <1>1, <1>3, <1>4 DEF CallInv
<1> QED BY <1>1, <1>3, <1>4, <1>5, StoppedType

----------------------------------------------------------------------------
(* Starts.                                                                 *)

\* The messages that the files restore.
LEMMA RestoredIs ==
  ASSUME DiskInv
  PROVE  /\ Restored \in Seq(Message) /\ Len(Restored) \in Nat /\ DOMAIN Restored = 1..Len(Restored)
         /\ \A i \in DOMAIN Restored : /\ Restored[i].seq \in DOMAIN parts
                                       /\ parts[Restored[i].seq] = Restored[i]
                                       /\ Numbered(Restored[i])
         /\ \A i, j \in DOMAIN Restored : i < j => Restored[i].seq < Restored[j].seq
         /\ \A s \in DOMAIN parts : \E i \in DOMAIN Restored : Restored[i] = parts[s]
<1>1. PICK b \in Nat : DOMAIN parts \subseteq -1..b
  BY DEF DiskInv
<1>2. /\ parts \in [DOMAIN parts -> Message]
      /\ \A s \in DOMAIN parts : parts[s].seq = s /\ Numbered(parts[s]) /\ parts[s] \in Message
  BY DEF DiskInv
<1> DEFINE K == DOMAIN parts
           n == Cardinality(K)
<1>3. K \in SUBSET (-1..b) /\ \A s \in K : parts[s] \in Message
  BY <1>1, <1>2
<1> HIDE DEF K
<1>4. n \in Nat
  BY <1>3, RangeFinite
<1>5. /\ Subsequence(parts, K) \in Seq(Message) /\ Len(Subsequence(parts, K)) = n
      /\ \A i \in 1..n : Subsequence(parts, K)[i] = parts[Nth(K, i)] /\ Nth(K, i) \in K
  BY <1>3, SubsequenceIs
<1>6. Restored = Subsequence(parts, K)
  BY DEF Restored, K
<1>7. DOMAIN Restored = 1..n /\ Len(Restored) = n /\ Restored \in Seq(Message)
  BY <1>5, <1>6
<1>8. ASSUME NEW i \in 1..n PROVE Restored[i] = parts[Nth(K, i)] /\ Nth(K, i) \in K /\ Restored[i].seq = Nth(K, i)
  BY <1>2, <1>5, <1>6 DEF K
<1>9. \A i, j \in 1..n : i < j => Nth(K, i) < Nth(K, j)
  BY <1>1, <1>3, NthOrder
<1>10. \A s \in K : \E i \in 1..n : Nth(K, i) = s
  BY <1>1, <1>3, NthAll
<1>11. \A i \in DOMAIN Restored :
         Restored[i].seq \in DOMAIN parts /\ parts[Restored[i].seq] = Restored[i] /\ Numbered(Restored[i])
  BY <1>2, <1>7, <1>8 DEF K
<1>12. \A i, j \in DOMAIN Restored : i < j => Restored[i].seq < Restored[j].seq
  BY <1>7, <1>8, <1>9
<1>13. ASSUME NEW s \in DOMAIN parts PROVE \E i \in DOMAIN Restored : Restored[i] = parts[s]
  <2>1. PICK i \in 1..n : Nth(K, i) = s
    BY <1>10 DEF K
  <2> QED BY <1>7, <1>8, <2>1
<1> QED BY <1>4, <1>7, <1>11, <1>12, <1>13

\* The number that comes next is not that of a file, if there is no cursor.
LEMMA RestoredSeqIs ==
  ASSUME DiskInv
  PROVE  /\ RestoredSeq \in Nat
         /\ cursor # NoCursor => RestoredSeq = cursor.nextSeq
         /\ cursor = NoCursor => \A s \in DOMAIN parts : s < RestoredSeq
<1>1. /\ Restored \in Seq(Message) /\ Len(Restored) \in Nat /\ DOMAIN Restored = 1..Len(Restored)
      /\ \A i \in DOMAIN Restored : Numbered(Restored[i]) /\ Restored[i].seq \in DOMAIN parts
      /\ \A i, j \in DOMAIN Restored : i < j => Restored[i].seq < Restored[j].seq
      /\ \A s \in DOMAIN parts : \E i \in DOMAIN Restored : Restored[i] = parts[s]
  BY RestoredIs
<1>2. cursor # NoCursor => cursor.nextSeq \in Nat
  BY DEF DiskInv, Cursors
<1>3. Restored # <<>> => /\ Last(Restored) = Restored[Len(Restored)] /\ Len(Restored) \in DOMAIN Restored
  BY <1>1 DEF Last
<1>4. Restored # <<>> => Last(Restored).seq \in Int /\ Last(Restored).seq >= -1
  <2>1. Restored # <<>> => Restored[Len(Restored)] \in Message
    BY <1>1, <1>3
  <2>2. Restored # <<>> => Restored[Len(Restored)].seq >= -1
    BY <1>1, <1>3 DEF Numbered
  <2>3. \A m \in Message : m.seq \in Int
    BY DEF Message
  <2> QED BY <1>3, <2>1, <2>2, <2>3
<1>5. RestoredSeq \in Nat
  BY <1>2, <1>4 DEF RestoredSeq
<1>6. ASSUME cursor = NoCursor, NEW s \in DOMAIN parts PROVE s < RestoredSeq
  <2>1. PICK i \in DOMAIN Restored : Restored[i] = parts[s]
    BY <1>1
  <2>2. Restored # <<>> /\ parts[s].seq = s /\ s \in Int
    <3>1. DOMAIN Restored = 1..Len(Restored)
      BY <1>1
    <3>2. Restored # <<>>
      BY <2>1, <3>1
    <3>3. parts[s].seq = s
      BY DEF DiskInv
    <3>4. PICK b \in Nat : DOMAIN parts \subseteq -1..b
      BY DEF DiskInv
    <3> QED BY <3>2, <3>3, <3>4
  <2>3. RestoredSeq = Last(Restored).seq + 1
    BY Zenon, <1>6, <2>2 DEF RestoredSeq
  <2>4. i < Len(Restored) \/ i = Len(Restored)
    BY <1>1
  <2>5. i < Len(Restored) => Restored[i].seq < Last(Restored).seq
    BY <1>1, <1>3, <2>2
  <2>6. s <= Last(Restored).seq
    BY <1>3, <1>4, <2>1, <2>2, <2>4, <2>5
  <2> QED BY <1>4, <2>2, <2>3, <2>6
<1> QED BY <1>5, <1>6 DEF RestoredSeq

\* A resumption keeps the types.
LEMMA ResumeType == ASSUME TypeInv, CallInv, Resume PROVE TypeInv' /\ CallInv'
<1>1. /\ ~up /\ up' = TRUE
      /\ messages' = IF meta THEN Restored ELSE <<>>
      /\ nextSeq' = IF meta THEN RestoredSeq ELSE 0
      /\ values' = IF meta THEN cursor.outputs ELSE {}
      /\ metaDone' = meta
      /\ restarted' = (restarted \/ (~meta /\ DOMAIN parts # {}))
      /\ UNCHANGED <<open, callVars, diskVars, node, made, compacts, stops, acked, lost, doubled, outputsSet>>
  BY DEF Resume
<1>2. DiskInv /\ open \in Seq(CallIds) /\ meta \in BOOLEAN
  BY DEF TypeInv, MemInv, CountInv
<1>3. /\ Restored \in Seq(Message) /\ DOMAIN Restored = 1..Len(Restored) /\ Len(Restored) \in Nat
      /\ \A i \in DOMAIN Restored : Numbered(Restored[i])
      /\ \A i, j \in DOMAIN Restored : i < j => Restored[i].seq < Restored[j].seq
      /\ RestoredSeq \in Nat
  BY <1>2, RestoredIs, RestoredSeqIs
<1>4. ASSUME NEW i \in DOMAIN Restored, Restored[i].seq = -1 PROVE i = 1
  <2>1. i # 1 => 1 \in DOMAIN Restored /\ 1 < i
    BY <1>3
  <2>2. i # 1 => Restored[1].seq < -1 /\ Restored[1] \in Message
    BY <1>3, <1>4, <2>1
  <2>3. i # 1 => Restored[1].seq \in Int /\ Restored[1].seq >= -1
    BY <1>3, <2>1, <2>2 DEF Message, Numbered
  <2> QED BY <2>2, <2>3
<1>5. cursor.outputs \subseteq OutputKeys
  BY <1>2 DEF DiskInv, Cursors, NoCursor
<1>6. MemInv'
  <2>1. messages' \in Seq(Message) /\ nextSeq' \in Nat /\ open' \in Seq(CallIds) /\ values' \subseteq OutputKeys
    BY <1>1, <1>2, <1>3, <1>5
  <2>2. \A i \in DOMAIN messages' : Numbered(messages'[i]) /\ (messages'[i].seq = -1 => i = 1)
    BY <1>1, <1>3, <1>4
  <2> QED BY <2>1, <2>2 DEF MemInv
<1>7. DiskInv'
  BY <1>1, <1>2, SameDisk DEF DiskInv, diskVars
<1>8. CountInv'
  <2>1. up' \in BOOLEAN /\ metaDone' \in BOOLEAN /\ rewriting' \in BOOLEAN /\ meta' \in BOOLEAN /\ restarted' \in BOOLEAN
    <3>1. restarted \in BOOLEAN /\ rewriting \in BOOLEAN
      BY DEF TypeInv, CountInv
    <3> QED BY <1>1, <1>2, <3>1 DEF callVars, diskVars
  <2>2. {up', metaDone', rewriting', meta', restarted'} \subseteq BOOLEAN
    BY <2>1
  <2> QED BY <1>1, <2>2 DEF TypeInv, CountInv, callVars
<1>9. todo = <<>> /\ open = <<>> /\ adding = 0 /\ ~rewriting /\ (~meta => acked \subseteq lost)
  BY <1>1 DEF CallInv
<1>10. /\ todo' = <<>> /\ open' = <<>> /\ adding' = 0 /\ ~rewriting' /\ up' /\ (metaDone' => meta')
       /\ (~meta' => acked' \subseteq lost')
  BY <1>1, <1>9 DEF callVars, diskVars
<1>11. /\ Places("delete")' = {} /\ Places("meta")' = {} /\ Places("part")' = {} /\ todo' \in Seq(Ops)
  BY <1>10 DEF Places
<1>12. CallInv'
  BY <1>10, <1>11 DEF CallInv
<1> QED BY <1>6, <1>7, <1>8, <1>12 DEF TypeInv

\* The marker that a new event leaves in the files.
LEMMA NewEventIs ==
  ASSUME TypeInv, NewEvent
  PROVE  /\ ~up /\ made < MaxMessages /\ made' = made + 1 /\ cursor' = NoCursor /\ node' = 1 /\ outputsSet' = {}
         /\ DOMAIN parts # {} \/ meta
         /\ UNCHANGED <<up, memVars, callVars, meta, compacts, stops, acked, lost, restarted>>
         /\ \/ UNCHANGED <<parts, doubled>>
            \/ \E m \in Message :
                 /\ Numbered(m) /\ Stands(m) = {made + 1} /\ parts' = Put(m)
                 /\ doubled' = IF m.seq \in DOMAIN parts THEN doubled \cup Stands(parts[m.seq]) ELSE doubled
<1> DEFINE seq == IF cursor.nextSeq > 0 THEN cursor.nextSeq
                  ELSE IF DOMAIN parts # {} THEN Max(DOMAIN parts) + 1 ELSE 0
           m   == [seq |-> seq, kind |-> "user", id |-> made + 1, calls |-> {}, call |-> NoCall,
                   covers |-> {}]
<1>1. /\ ~up /\ made < MaxMessages /\ made' = made + 1 /\ cursor' = NoCursor /\ node' = 1 /\ outputsSet' = {}
      /\ DOMAIN parts # {} \/ meta
      /\ UNCHANGED <<up, memVars, callVars, meta, compacts, stops, acked, lost, restarted>>
  BY DEF NewEvent
<1>2. \/ /\ parts' = Put(m)
         /\ doubled' = IF seq \in DOMAIN parts THEN doubled \cup Stands(parts[seq]) ELSE doubled
      \/ UNCHANGED <<parts, doubled>>
  BY DEF NewEvent
<1>3. seq \in Nat
  <2>1. PICK b \in Nat : DOMAIN parts \subseteq -1..b
    BY DEF TypeInv, DiskInv
  <2>2. DOMAIN parts # {} => Max(DOMAIN parts) \in DOMAIN parts
    BY <2>1, MaxIs
  <2>3. DOMAIN parts # {} => Max(DOMAIN parts) + 1 \in Nat
    BY <2>1, <2>2
  <2>4. cursor.nextSeq \in Int
    BY DEF TypeInv, DiskInv, NoCursor, Cursors
  <2> QED BY <2>3, <2>4
<1> HIDE DEF seq
<1>4. "user" \in Kinds /\ {} \in SUBSET CallIds /\ NoCall \in CallIds \cup {NoCall}
  BY DEF Kinds
<1>5. m \in Message /\ Numbered(m) /\ Stands(m) = {made + 1} /\ m.seq = seq
  BY <1>1, <1>3, <1>4, MessageIs
<1> HIDE DEF m
<1> QED BY <1>1, <1>2, <1>5

\* A new event keeps them.
LEMMA NewEventType == ASSUME TypeInv, CallInv, NewEvent PROVE TypeInv' /\ CallInv'
<1>1. /\ ~up /\ made < MaxMessages /\ made' = made + 1 /\ cursor' = NoCursor /\ node' = 1 /\ outputsSet' = {}
      /\ UNCHANGED <<up, memVars, callVars, meta, compacts, stops, acked, lost, restarted>>
      /\ \/ UNCHANGED <<parts, doubled>>
         \/ \E m \in Message :
              /\ Numbered(m) /\ Stands(m) = {made + 1} /\ parts' = Put(m)
              /\ doubled' = IF m.seq \in DOMAIN parts THEN doubled \cup Stands(parts[m.seq]) ELSE doubled
  BY NewEventIs
<1>2. DiskInv /\ meta \in BOOLEAN /\ doubled \subseteq 1..MaxMessages
  BY DEF TypeInv, CountInv
<1>3. DiskInv' /\ doubled' \subseteq 1..MaxMessages
  <2>1. CASE UNCHANGED <<parts, doubled>>
    BY <1>1, <1>2, <2>1, SameDisk
  <2>2. ASSUME NEW m \in Message, Numbered(m), parts' = Put(m),
               doubled' = IF m.seq \in DOMAIN parts THEN doubled \cup Stands(parts[m.seq]) ELSE doubled
        PROVE  DiskInv' /\ doubled' \subseteq 1..MaxMessages
    <3>1. DiskInv'
      BY <1>1, <1>2, <2>2, PutDisk
    <3>2. m.seq \in DOMAIN parts => parts[m.seq] \in Message
      BY <1>2 DEF DiskInv
    <3>3. m.seq \in DOMAIN parts => Stands(parts[m.seq]) \subseteq 1..MaxMessages
      BY <3>2, StandsType
    <3> QED BY <1>2, <2>2, <3>1, <3>3
  <2> QED BY <1>1, <2>1, <2>2
<1>4. MemInv'
  BY <1>1 DEF TypeInv, MemInv, memVars
<1>5. CountInv'
  <2>1. made' \in 0..MaxMessages /\ node' \in 1..MaxNodes /\ adding' \in 0..made'
        /\ acked' \subseteq 1..made' /\ lost' \subseteq 1..made'
    <3>1. made \in 0..MaxMessages /\ node \in 1..MaxNodes /\ adding \in 0..made /\ acked \subseteq 1..made /\ lost \subseteq 1..made
      BY DEF TypeInv, CountInv
    <3>2. \A k \in 1..made : k \in 1..made'
      BY <1>1, <3>1
    <3>3. made' \in 0..MaxMessages /\ node' \in 1..MaxNodes /\ adding' \in 0..made'
      BY <1>1, <3>1, LimitsAreNumbers DEF callVars
    <3> QED BY <1>1, <3>1, <3>2, <3>3
  <2> QED BY <1>1, <1>3, <2>1 DEF TypeInv, CountInv, memVars, callVars
<1>6. todo = <<>> /\ open = <<>> /\ adding = 0 /\ ~rewriting /\ messages = <<>> /\ (~meta => acked \subseteq lost)
  BY <1>1 DEF CallInv
<1>7. /\ todo' = <<>> /\ open' = <<>> /\ adding' = 0 /\ ~rewriting' /\ ~up' /\ messages' = <<>>
      /\ (~meta' => acked' \subseteq lost')
  BY <1>1, <1>6 DEF callVars, memVars
<1>8. Places("delete")' = {} /\ Places("meta")' = {} /\ Places("part")' = {} /\ todo' \in Seq(Ops)
  BY <1>7 DEF Places
<1>9. CallInv'
  BY <1>7, <1>8 DEF CallInv
<1> QED BY <1>3, <1>4, <1>5, <1>9 DEF TypeInv

\* And so does a step that changes nothing.
LEMMA UnchangedCall == ASSUME TypeInv, CallInv, UNCHANGED vars PROVE TypeInv' /\ CallInv'
<1>1. UNCHANGED <<up, messages, nextSeq, metaDone, open, values, todo, adding, rewriting, parts, meta, cursor, node,
                  made, compacts, stops, acked, lost, doubled, restarted, outputsSet>>
  BY DEF vars, memVars, callVars, diskVars
<1>2. MemInv'
  BY <1>1 DEF TypeInv, MemInv
<1>3. DiskInv'
  BY <1>1 DEF TypeInv, DiskInv
<1>4. CountInv'
  BY <1>1 DEF TypeInv, CountInv
<1>5. CallInv'
  BY <1>1 DEF CallInv, Places
<1> QED BY <1>2, <1>3, <1>4, <1>5 DEF TypeInv

\* Every step keeps the types and what is known of the call under way.
LEMMA CallStep == ASSUME TypeInv /\ CallInv, [Next]_vars PROVE TypeInv' /\ CallInv'
<1>0. /\ TypeInv /\ CallInv /\ open \in Seq(CallIds) /\ values \subseteq OutputKeys /\ outputsSet \subseteq OutputKeys
      /\ node \in 1..MaxNodes
  BY DEF TypeInv, MemInv, CountInv
<1>1. CASE Write
  BY <1>0, <1>1, WriteType
<1>2. CASE AddUser
  <2>1. PICK m : Adds(m) /\ UNCHANGED outputsSet
    BY <1>0, <1>2, AddUserAdds
  <2>2. UNCHANGED <<open, values, node>>
    BY <1>2 DEF AddUser
  <2> QED BY <1>0, <2>1, <2>2, AddsType
<1>3. CASE AddAssistant
  <2>1. PICK m : Adds(m) /\ UNCHANGED outputsSet
    BY <1>0, <1>3, AddAssistantAdds
  <2>2. UNCHANGED <<values, node>> /\ open' \in Seq(CallIds)
    BY <1>0, <1>3, AddAssistantAdds DEF AddAssistant
  <2> QED BY <1>0, <2>1, <2>2, AddsType
<1>4. CASE AddToolResult
  <2>1. PICK m : Adds(m) /\ UNCHANGED outputsSet
    BY <1>0, <1>4, AddToolResultAdds
  <2>2. UNCHANGED <<values, node>> /\ open' \in Seq(CallIds)
    BY <1>0, <1>4, AddToolResultAdds DEF AddToolResult
  <2> QED BY <1>0, <2>1, <2>2, AddsType
<1>5. ASSUME NEW k \in OutputKeys, SetOutput(k) PROVE TypeInv' /\ CallInv'
  <2>1. PICK c : Marks(c)
    BY <1>0, <1>5, SetOutputMarks
  <2> QED BY <1>0, <2>1, MarksType
<1>6. CASE Checkpoint
  <2>1. PICK c : Marks(c)
    BY <1>0, <1>6, CheckpointMarks
  <2> QED BY <1>0, <2>1, MarksType
<1>7. CASE Handover
  <2>1. PICK m : Adds(m) /\ outputsSet' = {}
    BY <1>0, <1>7, HandoverAdds
  <2>2. open' = open /\ values' = {} /\ node < MaxNodes /\ node' = node + 1
    BY <1>7 DEF Handover
  <2>3. node' \in 1..MaxNodes
    BY <1>0, <2>2, LimitsAreNumbers
  <2> QED BY <1>0, <2>1, <2>2, <2>3, AddsType
<1>8. CASE Compact
  <2>1. PICK m, g, r : Shortens(m, g, r)
    BY <1>0, <1>8, CompactShortens
  <2> QED BY <1>0, <2>1, ShortensType
<1>9. CASE CompactStructure
  <2>1. PICK m, g, r : Shortens(m, g, r)
    BY <1>0, <1>9, CompactStructureShortens
  <2> QED BY <1>0, <2>1, ShortensType
<1>10. CASE Prune
  BY <1>0, <1>10, PruneType
<1>11. CASE Crash
  BY <1>0, <1>11, CrashType
<1>12. CASE Cancel
  BY <1>0, <1>12, CancelType
<1>13. CASE Resume
  BY <1>0, <1>13, ResumeType
<1>14. CASE NewEvent
  BY <1>0, <1>14, NewEventType
<1>15. CASE UNCHANGED vars
  BY <1>0, <1>15, UnchangedCall
<1> QED
  BY <1>1, <1>2, <1>3, <1>4, <1>5, <1>6, <1>7, <1>8, <1>9, <1>10, <1>11, <1>12, <1>13, <1>14, <1>15 DEF Next

\* They hold at first.
LEMMA CallInit == Init => TypeInv /\ CallInv
<1>1. SUFFICES ASSUME Init PROVE TypeInv /\ CallInv
  OBVIOUS
<1>2. /\ up = TRUE /\ messages = <<>> /\ nextSeq = 0 /\ metaDone = FALSE /\ open = <<>> /\ values = {}
      /\ todo = <<>> /\ adding = 0 /\ rewriting = FALSE
      /\ parts = <<>> /\ meta = FALSE /\ cursor = NoCursor
      /\ node = 1 /\ made = 0 /\ compacts = 0 /\ stops = 0
      /\ acked = {} /\ lost = {} /\ doubled = {} /\ restarted = FALSE /\ outputsSet = {}
  BY <1>1 DEF Init
<1>3. MemInv
  BY <1>2 DEF MemInv
<1>4. DiskInv
  <2>1. parts \in [DOMAIN parts -> Message] /\ DOMAIN parts = {}
    BY <1>2
  <2>2. DOMAIN parts \subseteq -1..0 /\ 0 \in Nat
    BY <2>1
  <2> QED BY <1>2, <2>1, <2>2 DEF DiskInv
<1>5. CountInv
  <2>1. 1 \in 1..MaxNodes /\ 0 \in 0..MaxMessages /\ 0 \in 0..MaxCompacts /\ 0 \in 0..MaxStops /\ 0 \in 0..0
    BY <1>1, LimitsAreNumbers
  <2>2. {up, metaDone, rewriting, meta, restarted} \subseteq BOOLEAN
    BY <1>2
  <2> QED BY <1>2, <2>1, <2>2 DEF CountInv
<1>6. Places("delete") = {} /\ Places("meta") = {} /\ Places("part") = {} /\ todo \in Seq(Ops)
  BY <1>2 DEF Places
<1>7. CallInv
  BY <1>2, <1>6 DEF CallInv
<1> QED BY <1>3, <1>4, <1>5, <1>7 DEF TypeInv

\* They are those of TypeOK.
LEMMA TypeInvIsTypeOK == TypeInv => TypeOK
<1>1. SUFFICES ASSUME TypeInv PROVE TypeOK
  OBVIOUS
<1>2. PICK b \in Nat : DOMAIN parts \subseteq -1..b
  BY <1>1 DEF TypeInv, DiskInv
<1>3. DOMAIN parts \subseteq Int /\ \A s \in DOMAIN parts : parts[s] \in Message /\ parts[s].seq = s
  <2>1. \A s \in -1..b : s \in Int
    BY <1>2
  <2> QED BY <1>1, <1>2, <2>1 DEF TypeInv, DiskInv
<1>4. cursor.nextSeq \in Int /\ cursor.outputs \subseteq OutputKeys
  BY <1>1 DEF TypeInv, DiskInv, NoCursor, Cursors
<1>5. adding \in 0..MaxMessages /\ acked \subseteq 1..MaxMessages /\ lost \subseteq 1..MaxMessages
      /\ doubled \subseteq 1..MaxMessages
  <2>1. made \in 0..MaxMessages /\ adding \in 0..made /\ acked \subseteq 1..made /\ lost \subseteq 1..made
        /\ doubled \subseteq 1..MaxMessages
    BY <1>1 DEF TypeInv, CountInv
  <2>2. \A k \in 1..made : k \in 1..MaxMessages
    BY <2>1, LimitsAreNumbers
  <2>3. adding \in 0..MaxMessages
    BY <2>1, LimitsAreNumbers
  <2> QED BY <2>1, <2>2, <2>3
<1>6. {acked, lost, doubled} \subseteq SUBSET (1..MaxMessages)
  BY <1>5
<1>7. /\ messages \in Seq(Message) /\ nextSeq \in Nat /\ open \in Seq(CallIds) /\ values \subseteq OutputKeys
  BY <1>1 DEF TypeInv, MemInv
<1>8. /\ {up, metaDone, rewriting, meta, restarted} \subseteq BOOLEAN /\ outputsSet \subseteq OutputKeys
      /\ node \in 1..MaxNodes /\ made \in 0..MaxMessages
      /\ compacts \in 0..MaxCompacts /\ stops \in 0..MaxStops
  BY <1>1 DEF TypeInv, CountInv
<1> QED BY <1>3, <1>4, <1>5, <1>6, <1>7, <1>8 DEF TypeOK

----------------------------------------------------------------------------
(* Numbers.                                                                *)

\* Numbers are numbers.
LEMMA NumbersAre ==
  ASSUME TypeInv
  PROVE  /\ nextSeq \in Nat /\ DOMAIN messages = 1..Len(messages) /\ Len(messages) \in Nat
         /\ \A i \in DOMAIN messages : messages[i] \in Message /\ messages[i].seq \in Int
         /\ cursor # NoCursor => cursor.nextSeq \in Nat
         /\ \A s \in DOMAIN parts : s \in Int
<1>1. \A i \in DOMAIN messages : messages[i] \in Message /\ messages[i].seq \in Int
  <2>1. \A m \in Message : m.seq \in Int
    BY DEF Message
  <2>2. \A i \in DOMAIN messages : messages[i] \in Message
    BY DEF TypeInv, MemInv
  <2> QED BY <2>1, <2>2
<1>2. cursor # NoCursor => cursor.nextSeq \in Nat
  BY DEF TypeInv, DiskInv, Cursors
<1>3. \A s \in DOMAIN parts : s \in Int
  <2>1. PICK b \in Nat : DOMAIN parts \subseteq -1..b
    BY DEF TypeInv, DiskInv
  <2>2. \A s \in -1..b : s \in Int
    BY <2>1
  <2> QED BY <2>1, <2>2
<1> QED BY <1>1, <1>2, <1>3 DEF TypeInv, MemInv

\* The numbers stay in order when a message is added,
LEMMA AddsOrder == ASSUME TypeInv, OrderInv, NEW m, Adds(m) PROVE OrderInv'
<1>1. /\ up /\ todo = <<>> /\ m \in Message /\ m.seq = nextSeq /\ Stands(m) = {made + 1}
      /\ nextSeq' = nextSeq + 1 /\ doubled' = Doubled(m) /\ m.id = made + 1
      /\ UNCHANGED <<up, diskVars>>
  BY DEF Adds
<1>2. /\ Len(messages) \in Nat /\ DOMAIN messages = 1..Len(messages)
      /\ DOMAIN messages' = 1..Len(messages) + 1
      /\ messages'[Len(messages) + 1] = m
      /\ \A i \in 1..Len(messages) : messages'[i] = messages[i]
  BY AddsMessages
<1>3. /\ nextSeq \in Nat /\ \A i \in DOMAIN messages : messages[i].seq \in Int
      /\ cursor # NoCursor => cursor.nextSeq \in Nat
      /\ \A s \in DOMAIN parts : s \in Int
  BY NumbersAre
<1>4. /\ \A i \in DOMAIN todo' : /\ todo'[i].op = "part" => todo'[i].part = m
                                 /\ todo'[i].op = "cursor" => todo'[i].cursor = OnlySeq(nextSeq + 1)
      /\ \E i \in DOMAIN todo' : todo'[i].op = "cursor"
  <2>1. todo'[Len(todo')].op = "cursor"
    BY <1>3, AddsTodo, OnlySeqIs, OpsAre
  <2> QED BY <2>1, AddsTodo
<1>5. /\ doubled \subseteq doubled'
      /\ \A i \in DOMAIN messages : messages[i].seq = m.seq =>
           Stands(messages[i]) \subseteq doubled' /\ Stands(m) \subseteq doubled'
  BY <1>1 DEF Doubled
<1>6. RisingInv'
  <2>1. ASSUME NEW i \in DOMAIN messages', NEW j \in DOMAIN messages', i < j
        PROVE  /\ messages'[i].seq <= messages'[j].seq
               /\ messages'[i].seq = messages'[j].seq =>
                    Stands(messages'[i]) \subseteq doubled' /\ Stands(messages'[j]) \subseteq doubled'
    <3>1. i \in 1..Len(messages) /\ messages'[i] = messages[i] /\ i \in DOMAIN messages
      BY <1>2, <2>1
    <3>2. CASE j = Len(messages) + 1
      <4>1. messages'[j] = m
        BY <1>2, <3>2
      <4> QED BY <1>1, <1>5, <3>1, <4>1 DEF OrderInv, RisingInv
    <3>3. CASE j # Len(messages) + 1
      <4>1. j \in DOMAIN messages /\ messages'[j] = messages[j]
        BY <1>2, <3>3
      <4> QED BY <1>5, <2>1, <3>1, <4>1 DEF OrderInv, RisingInv
    <3> QED BY <3>2, <3>3
  <2>2. ASSUME NEW i \in DOMAIN messages' PROVE messages'[i].seq <= nextSeq'
    <3>1. CASE i = Len(messages) + 1
      BY <1>1, <1>2, <1>3, <3>1
    <3>2. CASE i # Len(messages) + 1
      <4>1. i \in DOMAIN messages /\ messages'[i] = messages[i]
        BY <1>2, <3>2
      <4>2. messages[i].seq <= nextSeq
        BY <4>1 DEF OrderInv, RisingInv
      <4> QED BY <1>1, <1>3, <4>1, <4>2
    <3> QED BY <3>1, <3>2
  <2> QED BY <2>1, <2>2 DEF RisingInv
<1>7. FilesInv'
  <2>1. \A s \in DOMAIN parts : s <= nextSeq
    BY <1>1 DEF OrderInv, FilesInv
  <2>2. \A s \in DOMAIN parts : s <= nextSeq + 1
    BY <1>3, <2>1
  <2> QED BY <1>1, <2>2 DEF OrderInv, FilesInv, diskVars
<1>8. CursorInv'
  <2>1. cursor # NoCursor => cursor.nextSeq >= nextSeq
    BY <1>1 DEF OrderInv, CursorInv, Places
  <2>2. OnlySeq(nextSeq + 1).nextSeq = nextSeq'
    BY <1>1, <1>3, OnlySeqIs
  <2>3. Places("cursor")' # {}
    BY <1>4 DEF Places
  <2>4. \A i \in Places("part")' : todo'[i].part.seq = nextSeq
    BY <1>1, <1>4 DEF Places
  <2>5. \A i \in Places("cursor")' : todo'[i].cursor.nextSeq = nextSeq'
    BY <1>4, <1>1, <2>2 DEF Places
  <2>6. nextSeq' >= nextSeq' /\ cursor' = cursor
    BY <1>1, <1>3 DEF diskVars
  <2> QED BY <1>3, <2>1, <2>3, <2>4, <2>5, <2>6 DEF CursorInv
<1> QED BY <1>6, <1>7, <1>8 DEF OrderInv

\* when the messages are shortened,
LEMMA ShortensOrder == ASSUME TypeInv, OrderInv, NEW m, NEW g, NEW r, Shortens(m, g, r) PROVE OrderInv'
<1>1. /\ up /\ todo = <<>> /\ m \in Message
      /\ Len(messages') > 1 => m.seq = messages'[2].seq - 1
      /\ Len(messages') = 1 => m.seq = nextSeq /\ nextSeq' = nextSeq + 1
      /\ nextSeq' \in {nextSeq, nextSeq + 1}
      /\ UNCHANGED <<up, diskVars, doubled>>
  BY SMTT(30) DEF Shortens
<1>2. /\ DOMAIN messages' = 1..Len(messages') /\ Len(messages') \in Nat
      /\ Len(messages') >= 1 /\ messages'[1] = m
      /\ \A i \in 2..Len(messages') : /\ g[i] \in DOMAIN messages /\ messages'[i] = messages[g[i]]
                                      /\ messages'[i].seq \in Nat
      /\ \A i, j \in 2..Len(messages') : i < j => g[i] < g[j]
  BY ShortensMessages
<1>3. /\ nextSeq \in Nat /\ \A i \in DOMAIN messages : messages[i].seq \in Int
      /\ cursor # NoCursor => cursor.nextSeq \in Nat
      /\ \A s \in DOMAIN parts : s \in Int
      /\ m.seq \in Int
  BY <1>1, NumbersAre DEF Message
<1>4. nextSeq' \in Nat /\ nextSeq <= nextSeq'
  BY <1>1, <1>3
<1>5. ASSUME NEW i \in 2..Len(messages') PROVE messages'[i].seq <= nextSeq /\ m.seq < messages'[i].seq
  <2>1. messages'[i].seq <= nextSeq
    BY <1>2 DEF OrderInv, RisingInv
  <2>2. 2 \in 2..Len(messages') /\ Len(messages') > 1 /\ i \in Int
    BY <1>2
  <2>3. messages'[2].seq <= messages'[i].seq
    <3>1. CASE i = 2
      BY <1>2, <2>2, <3>1
    <3>2. CASE i # 2
      <4>1. 2 < i
        BY <1>2, <3>2
      <4>2. g[2] < g[i] /\ g[2] \in DOMAIN messages /\ g[i] \in DOMAIN messages
        BY <1>2, <2>2, <4>1
      <4> QED BY <1>2, <2>2, <4>2 DEF OrderInv, RisingInv
    <3> QED BY <3>1, <3>2
  <2>4. messages'[2].seq \in Nat /\ messages'[i].seq \in Nat
    BY <1>2, <2>2
  <2> QED BY <1>1, <1>3, <2>1, <2>2, <2>3, <2>4
<1>6. m.seq <= nextSeq
  <2>1. CASE Len(messages') = 1
    BY <1>1, <1>3, <2>1
  <2>2. CASE Len(messages') # 1
    <3>1. 2 \in 2..Len(messages')
      BY <1>2, <2>2
    <3>2. messages'[2].seq <= nextSeq /\ m.seq < messages'[2].seq /\ messages'[2].seq \in Nat
      BY <1>2, <1>5, <3>1
    <3> QED BY <1>3, <3>2
  <2> QED BY <2>1, <2>2
<1>7. ASSUME NEW i \in DOMAIN messages' PROVE messages'[i].seq <= nextSeq /\ messages'[i].seq \in Int
  <2>1. i = 1 \/ i \in 2..Len(messages')
    BY <1>2
  <2>2. i \in 2..Len(messages') => messages'[i].seq \in Int
    BY <1>2
  <2> QED BY <1>2, <1>3, <1>5, <1>6, <2>1, <2>2
<1>8. RisingInv'
  <2>1. ASSUME NEW i \in DOMAIN messages', NEW j \in DOMAIN messages', i < j
        PROVE  /\ messages'[i].seq <= messages'[j].seq
               /\ messages'[i].seq = messages'[j].seq =>
                    Stands(messages'[i]) \subseteq doubled' /\ Stands(messages'[j]) \subseteq doubled'
    <3>1. j \in 2..Len(messages') /\ (i = 1 \/ i \in 2..Len(messages'))
      BY <1>2, <2>1
    <3>2. CASE i = 1
      <4>1. messages'[i].seq < messages'[j].seq
        BY <1>2, <1>5, <3>1, <3>2
      <4> QED BY <1>7, <4>1
    <3>3. CASE i \in 2..Len(messages')
      <4>1. g[i] < g[j] /\ g[i] \in DOMAIN messages /\ g[j] \in DOMAIN messages
            /\ messages'[i] = messages[g[i]] /\ messages'[j] = messages[g[j]]
        BY <1>2, <2>1, <3>1, <3>3
      <4> QED BY <1>1, <4>1 DEF OrderInv, RisingInv
    <3> QED BY <3>1, <3>2, <3>3
  <2>2. ASSUME NEW i \in DOMAIN messages' PROVE messages'[i].seq <= nextSeq'
    BY <1>3, <1>4, <1>7
  <2> QED BY <2>1, <2>2 DEF RisingInv
<1>9. FilesInv'
  <2>1. \A s \in DOMAIN parts : s <= nextSeq
    BY <1>1 DEF OrderInv, FilesInv
  <2>2. \A s \in DOMAIN parts : s <= nextSeq'
    BY <1>3, <1>4, <2>1
  <2> QED BY <1>1, <2>2 DEF OrderInv, FilesInv, diskVars
<1>10. CursorInv'
  <2>1. cursor # NoCursor => cursor.nextSeq >= nextSeq
    BY <1>1 DEF OrderInv, CursorInv, Places
  <2>2. /\ \A i \in DOMAIN todo' :
             /\ todo'[i].op = "part" => \E j \in DOMAIN messages' : messages'[j] = todo'[i].part
             /\ todo'[i].op = "cursor" => todo'[i].cursor = OnlySeq(nextSeq')
        /\ Len(todo') \in DOMAIN todo' /\ todo'[Len(todo')].op = "cursor"
    BY ShortensTodo
  <2>3. OnlySeq(nextSeq').nextSeq = nextSeq'
    BY <1>4, OnlySeqIs
  <2>4. Places("cursor")' # {}
    BY <2>2 DEF Places
  <2>5. ASSUME cursor # NoCursor, NEW i \in Places("part")' PROVE todo'[i].part.seq <= cursor.nextSeq
    <3>1. PICK j \in DOMAIN messages' : messages'[j] = todo'[i].part
      BY <2>2 DEF Places
    <3>2. messages'[j].seq <= nextSeq /\ messages'[j].seq \in Int
      BY <1>7
    <3> QED BY <1>3, <2>1, <2>5, <3>1, <3>2
  <2>6. \A i \in Places("cursor")' : todo'[i].cursor.nextSeq = nextSeq'
    BY <2>2, <2>3 DEF Places
  <2>7. nextSeq' >= nextSeq' /\ cursor' = cursor
    BY <1>1, <1>4 DEF diskVars
  <2> QED BY <2>4, <2>5, <2>6, <2>7 DEF CursorInv
<1> QED BY <1>8, <1>9, <1>10 DEF OrderInv

\* when the cursor is to be written,
LEMMA MarksOrder == ASSUME TypeInv, OrderInv, NEW c, Marks(c) PROVE OrderInv'
<1>1. /\ up /\ todo = <<>> /\ c \in Cursors
      /\ (c.nextSeq = nextSeq) \/ (cursor # NoCursor /\ c.nextSeq = cursor.nextSeq)
      /\ todo' = <<WriteCursor(c)>>
      /\ UNCHANGED <<up, messages, nextSeq, diskVars, doubled>>
  BY DEF Marks
<1>2. nextSeq \in Nat
  BY NumbersAre
<1>3. cursor # NoCursor => cursor.nextSeq >= nextSeq
  BY <1>1 DEF OrderInv, CursorInv, Places
<1>4. DOMAIN todo' = {1} /\ todo'[1].op = "cursor" /\ todo'[1].cursor = c
  <2>1. WriteCursor(c).op = "cursor" /\ WriteCursor(c).cursor = c
    BY <1>1, OpsAre
  <2> DEFINE w == WriteCursor(c)
  <2>2. todo' = <<w>> /\ w.op = "cursor" /\ w.cursor = c
    BY <1>1, <2>1
  <2> HIDE DEF w
  <2> QED BY <2>2
<1>5. Places("part")' = {} /\ Places("cursor")' = {1}
  BY <1>4 DEF Places
<1>6. c.nextSeq >= nextSeq
  BY <1>1, <1>2, <1>3
<1>7. RisingInv' /\ FilesInv'
  BY <1>1 DEF OrderInv, RisingInv, FilesInv, diskVars
<1>8. CursorInv'
  BY <1>1, <1>4, <1>5, <1>6 DEF CursorInv
<1> QED BY <1>7, <1>8 DEF OrderInv

\* when a file is to be written anew,
LEMMA PruneOrder == ASSUME TypeInv, OrderInv, Prune PROVE OrderInv'
<1>1. PICK i \in DOMAIN messages : todo' = <<WritePart(messages[i])>>
  BY DEF Prune
<1>2. up /\ todo = <<>> /\ UNCHANGED <<up, messages, nextSeq, diskVars, doubled>>
  BY DEF Prune, Idle, memVars
<1>3. messages[i] \in Message /\ messages[i].seq \in Int /\ nextSeq \in Nat /\ (cursor # NoCursor => cursor.nextSeq \in Nat)
  BY NumbersAre
<1>4. DOMAIN todo' = {1} /\ todo'[1].op = "part" /\ todo'[1].part = messages[i]
  <2> DEFINE w == WritePart(messages[i])
  <2>1. w.op = "part" /\ w.part = messages[i]
    BY <1>3, OpsAre
  <2>2. todo' = <<w>>
    BY <1>1
  <2> HIDE DEF w
  <2> QED BY <2>1, <2>2
<1>5. Places("part")' = {1} /\ Places("cursor")' = {}
  BY <1>4 DEF Places
<1>6. cursor # NoCursor => cursor.nextSeq >= nextSeq
  BY <1>2 DEF OrderInv, CursorInv, Places
<1>7. messages[i].seq <= nextSeq
  BY DEF OrderInv, RisingInv
<1>8. RisingInv' /\ FilesInv'
  BY <1>2 DEF OrderInv, RisingInv, FilesInv, diskVars
<1>9. cursor # NoCursor => messages[i].seq <= cursor.nextSeq
  BY <1>3, <1>6, <1>7
<1>10. CursorInv'
  BY <1>2, <1>4, <1>5, <1>6, <1>9 DEF CursorInv, diskVars
<1> QED BY <1>8, <1>10 DEF OrderInv

\* A file operation leaves no file beyond the next number.
LEMMA PerformOrder ==
  ASSUME TypeInv, CallInv, OrderInv, up, todo # <<>>, Perform(todo[1])
  PROVE  /\ \A s \in DOMAIN parts' : s <= nextSeq
         /\ cursor' # NoCursor => \A s \in DOMAIN parts' : s <= cursor'.nextSeq
         /\ cursor' # cursor => todo[1].op = "cursor" /\ cursor' = todo[1].cursor
<1> DEFINE f == todo[1]
<1>1. f \in Ops /\ 1 \in DOMAIN todo
  BY NextOp
<1>2. /\ parts' = CASE f.op = "part"   -> Put(f.part)
                    [] f.op = "delete" -> [s \in {t \in DOMAIN parts : t >= f.before} |-> parts[s]]
                    [] OTHER           -> parts
      /\ cursor' = IF f.op = "cursor" THEN f.cursor ELSE cursor
  BY DEF Perform
<1>3. f.op = "part" => 1 \in Places("part")
  BY <1>1 DEF Places
<1>4. f.op = "cursor" => 1 \in Places("cursor")
  BY <1>1 DEF Places
<1> HIDE DEF f
<1>5. /\ nextSeq \in Nat /\ \A i \in DOMAIN messages : messages[i].seq \in Int
      /\ cursor # NoCursor => cursor.nextSeq \in Nat
      /\ \A s \in DOMAIN parts : s \in Int
  BY NumbersAre
<1>6. f.op = "part" => f.part.seq <= nextSeq /\ (cursor # NoCursor => f.part.seq <= cursor.nextSeq)
  <2>1. SUFFICES ASSUME f.op = "part" PROVE f.part.seq <= nextSeq /\ (cursor # NoCursor => f.part.seq <= cursor.nextSeq)
    OBVIOUS
  <2>2. PICK j \in DOMAIN messages : messages[j] = f.part
    BY <1>3, <2>1 DEF CallInv, f
  <2> QED BY <1>3, <2>1, <2>2 DEF OrderInv, RisingInv, CursorInv, f
<1>7. ASSUME NEW s \in DOMAIN parts' PROVE s \in DOMAIN parts \/ (f.op = "part" /\ s = f.part.seq)
  <2>1. CASE f.op = "part"
    <3>1. parts' = Put(f.part)
      BY <1>2, <2>1
    <3> QED BY <2>1, <3>1 DEF Put
  <2>2. CASE f.op = "delete"
    <3>1. parts' = [t \in {t \in DOMAIN parts : t >= f.before} |-> parts[t]]
      BY <1>2, <2>2
    <3> QED BY <3>1
  <2>3. CASE f.op # "part" /\ f.op # "delete"
    BY <1>2, <2>3
  <2> QED BY <2>1, <2>2, <2>3
<1>8. \A s \in DOMAIN parts : s <= nextSeq /\ (cursor # NoCursor => s <= cursor.nextSeq)
  BY DEF OrderInv, FilesInv
<1>9. \A s \in DOMAIN parts' : s <= nextSeq /\ (cursor # NoCursor => s <= cursor.nextSeq) /\ s \in Int
  <2>1. f.op = "part" => f.part.seq \in Int
    BY <1>1, OpIs DEF Message
  <2> QED BY <1>5, <1>6, <1>7, <1>8, <2>1
<1>10. f.op = "cursor" => f.cursor \in Cursors /\ f.cursor.nextSeq >= nextSeq
  BY <1>1, <1>4, OpIs DEF OrderInv, CursorInv, f
<1>11. cursor' # NoCursor => \A s \in DOMAIN parts' : s <= cursor'.nextSeq
  <2>1. CASE f.op = "cursor"
    <3>1. cursor' = f.cursor /\ f.cursor.nextSeq \in Nat /\ f.cursor.nextSeq >= nextSeq
      BY <1>2, <1>10, <2>1 DEF Cursors
    <3> QED BY <1>5, <1>9, <3>1
  <2>2. CASE f.op # "cursor"
    BY <1>2, <1>9, <2>2
  <2> QED BY <2>1, <2>2
<1>12. cursor' # cursor => f.op = "cursor" /\ cursor' = f.cursor
  BY <1>2
<1> QED BY <1>9, <1>11, <1>12 DEF f

\* when an operation is done,
LEMMA WriteOrder == ASSUME TypeInv, CallInv, OrderInv, Write PROVE OrderInv'
<1>1. /\ up /\ todo # <<>> /\ Perform(todo[1]) /\ todo' = Tail(todo)
      /\ UNCHANGED <<up, memVars, doubled>>
  BY WriteWrites DEF Writes
<1>2. /\ 1 \in DOMAIN todo /\ todo[1] \in Ops
      /\ \A i \in DOMAIN todo' : i + 1 \in DOMAIN todo /\ todo'[i] = todo[i + 1] /\ i + 1 # 1
      /\ \A i \in DOMAIN todo : i # 1 => i - 1 \in DOMAIN todo' /\ todo'[i - 1] = todo[i]
  BY <1>1, NextOp
<1>3. /\ \A s \in DOMAIN parts' : s <= nextSeq
      /\ cursor' # NoCursor => \A s \in DOMAIN parts' : s <= cursor'.nextSeq
      /\ cursor' # cursor => todo[1].op = "cursor" /\ cursor' = todo[1].cursor
  BY <1>1, PerformOrder
<1>4. RisingInv'
  BY <1>1 DEF OrderInv, RisingInv, memVars
<1>5. FilesInv'
  BY <1>1, <1>3 DEF FilesInv, memVars
<1>6. /\ nextSeq \in Nat /\ \A i \in DOMAIN messages : messages[i].seq \in Int
      /\ cursor # NoCursor => cursor.nextSeq \in Nat
  BY NumbersAre
<1>7. ASSUME NEW i \in Places("part")'
      PROVE  /\ i + 1 \in Places("part") /\ todo'[i].part = todo[i + 1].part
             /\ todo'[i].part.seq <= nextSeq /\ todo'[i].part.seq \in Int
  <2>1. i + 1 \in Places("part") /\ todo'[i] = todo[i + 1]
    BY <1>2 DEF Places
  <2>2. PICK j \in DOMAIN messages : messages[j] = todo[i + 1].part
    BY <2>1 DEF CallInv
  <2> QED BY <1>6, <2>1, <2>2 DEF OrderInv, RisingInv
<1>8. ASSUME NEW i \in Places("cursor")' PROVE i + 1 \in Places("cursor") /\ todo'[i].cursor.nextSeq >= nextSeq'
  <2>1. i + 1 \in Places("cursor") /\ todo'[i] = todo[i + 1]
    BY <1>2 DEF Places
  <2> QED BY <1>1, <2>1 DEF OrderInv, CursorInv, memVars
<1>9. CASE todo[1].op = "cursor"
  <2>1. 1 \in Places("cursor") /\ cursor' = todo[1].cursor
    BY <1>1, <1>2, <1>9 DEF Places, Perform
  <2>2. cursor'.nextSeq >= nextSeq /\ cursor'.nextSeq \in Nat
    BY <1>2, <1>9, <2>1, OpIs DEF OrderInv, CursorInv, Cursors
  <2>3. \A i \in Places("part")' : todo'[i].part.seq <= cursor'.nextSeq
    BY <1>6, <1>7, <2>2
  <2>4. nextSeq' = nextSeq
    BY <1>1 DEF memVars
  <2> QED BY <1>4, <1>5, <1>8, <2>2, <2>3, <2>4 DEF OrderInv, CursorInv
<1>10. CASE todo[1].op # "cursor"
  <2>1. cursor' = cursor
    BY <1>3, <1>10
  <2>2. cursor # NoCursor => \A i \in Places("part")' : todo'[i].part.seq <= cursor.nextSeq
    BY <1>7 DEF OrderInv, CursorInv
  <2>3. Places("cursor")' = {} => Places("cursor") = {}
    <3>1. SUFFICES ASSUME NEW i \in Places("cursor") PROVE i - 1 \in Places("cursor")'
      OBVIOUS
    <3>2. i # 1 /\ i \in DOMAIN todo /\ todo[i].op = "cursor"
      BY <1>10 DEF Places
    <3> QED BY <1>2, <3>2 DEF Places
  <2>4. nextSeq' = nextSeq /\ up
    BY <1>1 DEF memVars
  <2>5. cursor' # NoCursor /\ up' /\ Places("cursor")' = {} => cursor'.nextSeq >= nextSeq'
    BY <2>1, <2>3, <2>4 DEF OrderInv, CursorInv
  <2> QED BY <1>4, <1>5, <1>8, <2>1, <2>2, <2>5 DEF OrderInv, CursorInv
<1> QED BY <1>9, <1>10

\* A stop.
LEMMA StoppedOrder ==
  ASSUME Stopped, cursor' # NoCursor => \A s \in DOMAIN parts' : s <= cursor'.nextSeq
  PROVE  OrderInv'
<1>1. up' = FALSE /\ todo' = <<>> /\ messages' = <<>>
  BY DEF Stopped
<1>2. Places("part")' = {} /\ Places("cursor")' = {}
  BY <1>1 DEF Places
<1> QED BY <1>1, <1>2 DEF OrderInv, RisingInv, FilesInv, CursorInv

\* when the execution is cancelled,
LEMMA CancelOrder == ASSUME TypeInv, CallInv, OrderInv, Cancel PROVE OrderInv'
<1>1. /\ Stopped /\ up
      /\ \/ todo = <<>> /\ UNCHANGED diskVars
         \/ todo # <<>> /\ todo[1] \in Ops /\ Perform(todo[1])
  BY CancelDisk
<1>2. CASE todo = <<>> /\ UNCHANGED diskVars
  BY <1>1, <1>2, StoppedOrder DEF OrderInv, FilesInv, diskVars
<1>3. CASE todo # <<>> /\ todo[1] \in Ops /\ Perform(todo[1])
  <2>1. cursor' # NoCursor => \A s \in DOMAIN parts' : s <= cursor'.nextSeq
    BY <1>1, <1>3, PerformOrder
  <2> QED BY <1>1, <2>1, StoppedOrder
<1> QED BY <1>1, <1>2, <1>3

\* when the process dies,
LEMMA CrashOrder == ASSUME TypeInv, CallInv, OrderInv, Crash PROVE OrderInv'
<1>1. /\ Stopped /\ up
      /\ \/ todo = <<>> /\ UNCHANGED diskVars
         \/ todo # <<>> /\ todo[1] \in Ops /\ Tear(todo[1])
  BY CrashDisk
<1>2. CASE todo = <<>> /\ UNCHANGED diskVars
  BY <1>1, <1>2, StoppedOrder DEF OrderInv, FilesInv, diskVars
<1>3. CASE todo # <<>> /\ todo[1] \in Ops /\ Tear(todo[1])
  <2>1. DiskInv /\ meta \in BOOLEAN
    BY DEF TypeInv, CountInv
  <2>2. /\ \A s \in DOMAIN parts' : s \in DOMAIN parts
        /\ cursor' # cursor => cursor' = NoCursor
    BY <1>3, <2>1, TearDisk
  <2>3. cursor' # NoCursor => \A s \in DOMAIN parts' : s <= cursor'.nextSeq
    BY <2>2 DEF OrderInv, FilesInv
  <2> QED BY <1>1, <2>3, StoppedOrder
<1> QED BY <1>1, <1>2, <1>3

\* when the session is resumed over its metadata,
LEMMA ResumeOrder == ASSUME TypeInv, CallInv, OrderInv, Resume, ~restarted' PROVE OrderInv'
<1>1. /\ ~up /\ up' = TRUE
      /\ messages' = IF meta THEN Restored ELSE <<>>
      /\ nextSeq' = IF meta THEN RestoredSeq ELSE 0
      /\ restarted' = (restarted \/ (~meta /\ DOMAIN parts # {}))
      /\ UNCHANGED <<todo, diskVars>>
  BY DEF Resume, callVars
<1>2. todo = <<>> /\ DiskInv /\ (~meta => DOMAIN parts = {})
  BY <1>1 DEF CallInv, TypeInv
<1>3. Places("part")' = {} /\ Places("cursor")' = {}
  BY <1>1, <1>2 DEF Places
<1>4. /\ Restored \in Seq(Message) /\ DOMAIN Restored = 1..Len(Restored)
      /\ \A i \in DOMAIN Restored : Restored[i].seq \in DOMAIN parts
      /\ \A i, j \in DOMAIN Restored : i < j => Restored[i].seq < Restored[j].seq
      /\ RestoredSeq \in Nat
      /\ cursor # NoCursor => RestoredSeq = cursor.nextSeq
      /\ cursor = NoCursor => \A s \in DOMAIN parts : s < RestoredSeq
  BY <1>2, RestoredIs, RestoredSeqIs
<1>5. (cursor # NoCursor => cursor.nextSeq \in Nat) /\ \A s \in DOMAIN parts : s \in Int
  BY NumbersAre
<1>6. \A s \in DOMAIN parts : s <= nextSeq'
  <2>1. SUFFICES ASSUME NEW s \in DOMAIN parts PROVE s <= nextSeq'
    OBVIOUS
  <2>2. nextSeq' = RestoredSeq
    BY <1>1, <1>2, <2>1
  <2>3. cursor # NoCursor => s <= cursor.nextSeq
    BY DEF OrderInv, FilesInv
  <2> QED BY <1>4, <1>5, <2>2, <2>3
<1>7. FilesInv'
  BY <1>1, <1>6 DEF OrderInv, FilesInv, diskVars
<1>8. RisingInv'
  <2>1. CASE meta
    <3>1. messages' = Restored
      BY <1>1, <2>1
    <3>2. \A i \in DOMAIN Restored : Restored[i].seq \in Int
      BY <1>4, <1>5
    <3> QED BY <1>4, <1>6, <3>1, <3>2 DEF RisingInv
  <2>2. CASE ~meta
    BY <1>1, <2>2 DEF RisingInv
  <2> QED BY <2>1, <2>2
<1>9. cursor # NoCursor => cursor.nextSeq >= nextSeq'
  BY <1>1, <1>4, <1>5
<1>10. CursorInv'
  BY <1>1, <1>3, <1>9 DEF CursorInv, diskVars
<1> QED BY <1>7, <1>8, <1>10 DEF OrderInv

\* and when a new event leaves its marker.
LEMMA NewEventOrder == ASSUME TypeInv, CallInv, OrderInv, NewEvent PROVE OrderInv'
<1>1. ~up /\ cursor' = NoCursor /\ UNCHANGED <<up, memVars, callVars>>
  BY NewEventIs
<1>2. todo' = <<>> /\ messages' = <<>> /\ ~up'
  BY <1>1 DEF CallInv, memVars, callVars
<1>3. Places("part")' = {} /\ Places("cursor")' = {}
  BY <1>2 DEF Places
<1> QED BY <1>1, <1>2, <1>3 DEF OrderInv, RisingInv, FilesInv, CursorInv

----------------------------------------------------------------------------
(* What is stored.                                                         *)

\* What is shown stays stored when a message is added,
LEMMA AddsStore == ASSUME TypeInv, StoreInv, NEW m, Adds(m) PROVE StoreInv'
<1>1. up /\ todo = <<>> /\ doubled' = Doubled(m) /\ UNCHANGED <<up, diskVars, acked, lost>>
  BY DEF Adds
<1>2. /\ Len(messages) \in Nat /\ DOMAIN messages = 1..Len(messages)
      /\ DOMAIN messages' = 1..Len(messages) + 1
      /\ messages'[Len(messages) + 1] = m
      /\ \A i \in 1..Len(messages) : messages'[i] = messages[i]
  BY AddsMessages
<1>3. /\ \A i \in DOMAIN todo' : todo'[i].op # "delete"
      /\ \E i \in DOMAIN todo' : todo'[i].op = "part" /\ todo'[i].part = m
  <2>1. Len(todo') - 1 \in DOMAIN todo' /\ todo'[Len(todo') - 1] = WritePart(m)
    BY AddsTodo
  <2>2. WritePart(m).op = "part" /\ WritePart(m).part = m
    BY OpsAre DEF Adds
  <2> QED BY <2>1, <2>2, AddsTodo
<1>4. Places("delete")' = {}
  BY <1>3 DEF Places
<1>5. doubled \subseteq doubled'
  BY <1>1 DEF Doubled
<1>6. ASSUME NEW i \in DOMAIN messages'
      PROVE  Stands(messages'[i]) \subseteq doubled' \/ IsPending(messages[i])' \/ Safe(messages[i])'
  <2>1. CASE i = Len(messages) + 1
    <3>1. messages'[i] = m
      BY <1>2, <2>1
    <3> QED BY <1>3, <3>1 DEF IsPending, Places
  <2>2. CASE i # Len(messages) + 1
    <3>1. i \in DOMAIN messages /\ messages'[i] = messages[i]
      BY <1>2, <2>2
    <3>2. Stands(messages[i]) \subseteq doubled \/ Safe(messages[i])
      BY <1>1, <3>1 DEF StoreInv, IsPending, Places
    <3>3. Safe(messages[i]) => Safe(messages[i])'
      BY <1>1, <1>4, <3>1 DEF Safe, diskVars
    <3> QED BY <1>5, <3>1, <3>2, <3>3
  <2> QED BY <2>1, <2>2
<1>7. Covered(messages) \subseteq Covered(messages')
  <2>1. \A i \in DOMAIN messages : i \in DOMAIN messages' /\ messages'[i] = messages[i]
    BY <1>2
  <2> QED BY <2>1 DEF Covered
<1>8. acked' \ (lost' \cup doubled') \subseteq Covered(messages')
  BY <1>1, <1>5, <1>7 DEF StoreInv
<1> QED BY <1>1, <1>6, <1>8 DEF StoreInv

\* when the messages are shortened,
LEMMA ShortensStore ==
  ASSUME TypeInv, RisingInv, StoreInv, NEW m, NEW g, NEW r, Shortens(m, g, r) PROVE StoreInv'
<1>1. /\ up /\ todo = <<>> /\ r \in 1..Len(messages) + 1
      /\ \A i \in DOMAIN messages :
           Stands(messages[i]) \subseteq Stands(m) \/ \E j \in 2..Len(messages') : g[j] = i
      /\ UNCHANGED <<up, diskVars, acked, lost, doubled>>
  BY SMTT(30) DEF Shortens
<1>2. /\ DOMAIN messages' = 1..Len(messages') /\ Len(messages') \in Nat /\ DOMAIN messages = 1..Len(messages)
      /\ Len(messages) \in Nat
      /\ Len(messages') >= 1 /\ messages'[1] = m
      /\ \A i \in 2..Len(messages') : g[i] \in DOMAIN messages /\ messages'[i] = messages[g[i]]
  BY ShortensMessages
<1>3. /\ \A i \in DOMAIN todo' : todo'[i].op = "delete" =>
           todo'[i].before = IF r > Len(messages) THEN nextSeq' ELSE messages[r].seq
      /\ 2 \in DOMAIN todo' /\ todo'[2].op = "part" /\ todo'[2].part = m
      /\ \A i \in 2..Len(messages') :
           g[i] >= r \/ \E k \in DOMAIN todo' : todo'[k].op = "part" /\ todo'[k].part = messages'[i]
  BY ShortensTodo
<1>4. \A i \in DOMAIN messages : messages[i].seq \in Int
  BY NumbersAre
<1>5. ASSUME NEW i \in 2..Len(messages')
      PROVE  Stands(messages'[i]) \subseteq doubled' \/ IsPending(messages[i])' \/ Safe(messages[i])'
  <2>1. g[i] \in DOMAIN messages /\ messages'[i] = messages[g[i]]
    BY <1>2
  <2>2. CASE \E k \in DOMAIN todo' : todo'[k].op = "part" /\ todo'[k].part = messages'[i]
    BY <2>2 DEF IsPending, Places
  <2>3. CASE g[i] >= r
    <3>1. Stands(messages[g[i]]) \subseteq doubled \/ Safe(messages[g[i]])
      BY <1>1, <2>1 DEF StoreInv, IsPending, Places
    <3>2. r \in DOMAIN messages /\ ~(r > Len(messages))
      BY <1>1, <1>2, <2>1, <2>3
    <3>3. messages[g[i]].seq >= messages[r].seq
      <4>1. g[i] = r \/ r < g[i]
        BY <1>2, <2>1, <2>3, <3>2
      <4>2. messages[g[i]].seq \in Int /\ messages[r].seq \in Int
        BY <1>4, <2>1, <3>2
      <4>3. r < g[i] => messages[r].seq <= messages[g[i]].seq
        BY <2>1, <3>2 DEF RisingInv
      <4> QED BY <4>1, <4>2, <4>3
    <3>4. \A k \in Places("delete")' : todo'[k].before = messages[r].seq
      BY <1>3, <3>2 DEF Places
    <3>5. Safe(messages[g[i]]) => Safe(messages[i])'
      BY <1>1, <2>1, <3>3, <3>4 DEF Safe, diskVars
    <3> QED BY <1>1, <2>1, <3>1, <3>5
  <2> QED BY <1>3, <2>2, <2>3
<1>6. IsPending(messages[1])'
  BY <1>2, <1>3 DEF IsPending, Places
<1>7. ASSUME NEW i \in DOMAIN messages'
      PROVE  Stands(messages'[i]) \subseteq doubled' \/ IsPending(messages[i])' \/ Safe(messages[i])'
  <2>1. i = 1 \/ i \in 2..Len(messages')
    BY <1>2
  <2> QED BY <1>5, <1>6, <2>1
<1>8. Covered(messages) \subseteq Covered(messages')
  <2>1. SUFFICES ASSUME NEW i \in DOMAIN messages PROVE Stands(messages[i]) \subseteq Covered(messages')
    BY DEF Covered
  <2>2. CASE Stands(messages[i]) \subseteq Stands(m)
    <3>1. 1 \in DOMAIN messages' /\ messages'[1] = m
      BY <1>2
    <3> QED BY <2>2, <3>1 DEF Covered
  <2>3. ASSUME NEW j \in 2..Len(messages'), g[j] = i PROVE Stands(messages[i]) \subseteq Covered(messages')
    <3>1. j \in DOMAIN messages' /\ messages'[j] = messages[i]
      BY <1>2, <2>3
    <3> QED BY <3>1 DEF Covered
  <2> QED BY <1>1, <2>2, <2>3
<1>9. acked' \ (lost' \cup doubled') \subseteq Covered(messages')
  BY <1>1, <1>8 DEF StoreInv
<1> QED BY <1>1, <1>7, <1>9 DEF StoreInv

\* A call that deletes nothing and leaves the messages alone.
LEMMA QuietStore ==
  ASSUME StoreInv, up, todo = <<>>, Places("delete")' = {}, UNCHANGED <<up, messages, parts, acked, lost, doubled>>
  PROVE  StoreInv'
<1>1. ASSUME NEW i \in DOMAIN messages' PROVE Stands(messages'[i]) \subseteq doubled' \/ Safe(messages[i])'
  <2>1. messages'[i] = messages[i] /\ i \in DOMAIN messages
    OBVIOUS
  <2>2. Stands(messages[i]) \subseteq doubled \/ Safe(messages[i])
    BY <2>1 DEF StoreInv, IsPending, Places
  <2> QED BY <2>1, <2>2 DEF Safe
<1> QED BY <1>1 DEF StoreInv

\* when the cursor is to be written,
LEMMA MarksStore == ASSUME StoreInv, NEW c, Marks(c) PROVE StoreInv'
<1>1. /\ up /\ todo = <<>> /\ c \in Cursors /\ todo' = <<WriteCursor(c)>>
      /\ UNCHANGED <<up, messages, parts, acked, lost, doubled>>
  BY DEF Marks, diskVars
<1> DEFINE w == WriteCursor(c)
<1>2. w.op = "cursor" /\ todo' = <<w>>
  BY <1>1, OpsAre
<1> HIDE DEF w
<1>3. Places("delete")' = {}
  BY <1>2 DEF Places
<1> QED BY <1>1, <1>3, QuietStore

\* when a file is to be written anew,
LEMMA PruneStore == ASSUME TypeInv, StoreInv, Prune PROVE StoreInv'
<1>1. PICK i \in DOMAIN messages : todo' = <<WritePart(messages[i])>>
  BY DEF Prune
<1>2. up /\ todo = <<>> /\ UNCHANGED <<up, messages, parts, acked, lost, doubled>>
  BY DEF Prune, Idle, memVars, diskVars
<1> DEFINE w == WritePart(messages[i])
<1>3. w.op = "part" /\ todo' = <<w>>
  <2>1. messages[i] \in Message
    BY NumbersAre
  <2> QED BY <1>1, <2>1, OpsAre
<1> HIDE DEF w
<1>4. Places("delete")' = {}
  BY <1>3 DEF Places
<1> QED BY <1>2, <1>4, QuietStore

\* A file operation keeps the file of a message that the conversation shows.
LEMMA PerformKeeps ==
  ASSUME TypeInv, CallInv, RisingInv, StoreInv, todo # <<>>, Perform(todo[1]), NEW i \in DOMAIN messages,
         Safe(messages[i]) \/ (todo[1].op = "part" /\ todo[1].part = messages[i])
  PROVE  \/ Stands(messages[i]) \subseteq doubled
         \/ messages[i].seq \in DOMAIN parts' /\ parts'[messages[i].seq] = messages[i]
<1> DEFINE f == todo[1]
           m == messages[i]
<1>1. f \in Ops /\ 1 \in DOMAIN todo
  BY NextOp
<1>2. parts' = CASE f.op = "part"   -> Put(f.part)
                 [] f.op = "delete" -> [s \in {t \in DOMAIN parts : t >= f.before} |-> parts[s]]
                 [] OTHER           -> parts
  BY DEF Perform
<1>3. Safe(m) => m.seq \in DOMAIN parts /\ parts[m.seq] = m /\ (f.op = "delete" => m.seq >= f.before)
  BY <1>1 DEF Safe, Places
<1>4. f.op = "part" => \E j \in DOMAIN messages : messages[j] = f.part
  BY <1>1 DEF CallInv, Places
<1>5. Safe(m) \/ (f.op = "part" /\ f.part = m)
  OBVIOUS
<1>6. ASSUME NEW j \in DOMAIN messages, messages[j].seq = m.seq, messages[j] # m PROVE Stands(m) \subseteq doubled
  <2>1. i \in Int /\ j \in Int /\ i # j
    BY <1>6, NumbersAre
  <2>2. i < j \/ j < i
    BY <2>1
  <2> QED BY <1>6, <2>2 DEF RisingInv
<1> HIDE DEF f, m
<1>7. CASE f.op = "part"
  <2>1. parts' = [s \in DOMAIN parts \cup {f.part.seq} |-> IF s = f.part.seq THEN f.part ELSE parts[s]]
    BY <1>2, <1>7 DEF Put
  <2>2. CASE m.seq # f.part.seq
    <3>1. Safe(m)
      BY <1>5, <2>2
    <3> QED BY <1>3, <2>1, <2>2, <3>1 DEF m
  <2>3. CASE m.seq = f.part.seq
    <3>1. CASE m = f.part
      BY <2>1, <3>1 DEF m
    <3>2. CASE m # f.part
      <4>1. PICK j \in DOMAIN messages : messages[j] = f.part
        BY <1>4, <1>7
      <4>2. Stands(m) \subseteq doubled
        BY <1>6, <2>3, <3>2, <4>1
      <4> QED BY <4>2 DEF m
    <3> QED BY <3>1, <3>2
  <2> QED BY <2>2, <2>3
<1>8. CASE f.op = "delete"
  <2>1. parts' = [s \in {t \in DOMAIN parts : t >= f.before} |-> parts[s]]
    BY <1>2, <1>8
  <2>2. Safe(m)
    BY <1>5, <1>8
  <2> QED BY <1>3, <1>8, <2>1, <2>2 DEF m
<1>9. CASE f.op # "part" /\ f.op # "delete"
  <2>1. parts' = parts /\ Safe(m)
    BY <1>2, <1>5, <1>9
  <2> QED BY <1>3, <2>1 DEF m
<1> QED BY <1>7, <1>8, <1>9

\* when an operation is done.
LEMMA WriteStore == ASSUME TypeInv, CallInv, RisingInv, StoreInv, Write PROVE StoreInv'
<1>1. /\ up /\ todo # <<>> /\ Perform(todo[1]) /\ todo' = Tail(todo)
      /\ IF Len(todo) = 1 THEN acked' = acked \cup ({adding} \ {0}) /\ adding' = 0 /\ rewriting' = FALSE
         ELSE UNCHANGED <<acked, adding, rewriting>>
      /\ UNCHANGED <<up, memVars, lost, doubled>>
  BY WriteWrites DEF Writes
<1>2. /\ 1 \in DOMAIN todo
      /\ \A i \in DOMAIN todo' : i + 1 \in DOMAIN todo /\ todo'[i] = todo[i + 1] /\ i + 1 # 1
      /\ \A i \in DOMAIN todo : i # 1 => i - 1 \in DOMAIN todo' /\ todo'[i - 1] = todo[i]
  BY <1>1, NextOp
<1>3. Places("delete")' = {}
  <2>1. \A i \in Places("delete") : i = 1
    BY DEF CallInv
  <2> QED BY <1>2, <2>1 DEF Places
<1>4. ASSUME NEW i \in DOMAIN messages'
      PROVE  Stands(messages'[i]) \subseteq doubled' \/ IsPending(messages[i])' \/ Safe(messages[i])'
  <2>1. messages'[i] = messages[i] /\ i \in DOMAIN messages /\ doubled' = doubled
    BY <1>1 DEF memVars
  <2>2. CASE \E k \in DOMAIN todo : k # 1 /\ todo[k].op = "part" /\ todo[k].part = messages[i]
    <3>1. PICK k \in DOMAIN todo : k # 1 /\ todo[k].op = "part" /\ todo[k].part = messages[i]
      BY <2>2
    <3>2. k - 1 \in DOMAIN todo' /\ todo'[k - 1] = todo[k]
      BY <1>2, <3>1
    <3> QED BY <2>1, <3>1, <3>2 DEF IsPending, Places
  <2>3. CASE Safe(messages[i]) \/ (todo[1].op = "part" /\ todo[1].part = messages[i])
    <3>1. \/ Stands(messages[i]) \subseteq doubled
          \/ messages[i].seq \in DOMAIN parts' /\ parts'[messages[i].seq] = messages[i]
      BY <1>1, <2>1, <2>3, PerformKeeps
    <3> QED BY <1>3, <2>1, <3>1 DEF Safe
  <2>4. CASE Stands(messages[i]) \subseteq doubled
    BY <2>1, <2>4
  <2> QED BY <2>1, <2>2, <2>3, <2>4 DEF StoreInv, IsPending, Places
<1>5. acked' \ (lost' \cup doubled') \subseteq Covered(messages')
  <2>1. acked' \subseteq acked \cup ({adding} \ {0})
    BY <1>1
  <2>2. {adding} \ {0} \subseteq Covered(messages)
    BY DEF CallInv
  <2> QED BY <1>1, <2>1, <2>2 DEF StoreInv, memVars
<1> QED BY <1>1, <1>4, <1>5 DEF StoreInv

----------------------------------------------------------------------------
(* Stops.                                                                  *)

\* Of what was acknowledged, in a call that replaces nothing, the file is there.
LEMMA AckedSafe ==
  ASSUME TypeInv, CallInv, StoreInv, up, ~rewriting, NEW x \in acked \ (lost \cup doubled)
  PROVE  \E i \in DOMAIN messages : /\ x \in Stands(messages[i]) /\ Safe(messages[i])
                                    /\ ~(Stands(messages[i]) \subseteq doubled) /\ ~IsPending(messages[i])
<1>1. PICK i \in DOMAIN messages : x \in Stands(messages[i])
  BY DEF StoreInv, Covered
<1>2. ~(Stands(messages[i]) \subseteq doubled)
  BY <1>1
<1>3. ~IsPending(messages[i])
  <2>1. SUFFICES ASSUME NEW k \in Places("part"), todo[k].part = messages[i] PROVE FALSE
    BY DEF IsPending
  <2>2. Stands(messages[i]) = {adding}
    BY <2>1 DEF CallInv
  <2>3. adding \notin acked
    BY DEF TypeInv, CountInv
  <2> QED BY <1>1, <2>2, <2>3
<1> QED BY <1>1, <1>2, <1>3 DEF StoreInv

\* What was acknowledged stays stored,
LEMMA StoppedStore ==
  ASSUME Stopped, acked \ (lost' \cup doubled) \subseteq OnDisk(parts') PROVE StoreInv'
<1>1. up' = FALSE /\ messages' = <<>> /\ acked' = acked /\ doubled' = doubled
  BY DEF Stopped
<1> QED BY <1>1 DEF StoreInv

\* The file of a message that is in the files.
LEMMA OnDiskHas ==
  ASSUME NEW ps, NEW s \in DOMAIN ps, NEW x \in Stands(ps[s]) PROVE x \in OnDisk(ps)
BY DEF OnDisk, Covered

\* when the execution is cancelled,
LEMMA CancelStore == ASSUME TypeInv, CallInv, RisingInv, StoreInv, Cancel PROVE StoreInv'
<1>1. /\ Stopped /\ up
      /\ \/ todo = <<>> /\ UNCHANGED diskVars
         \/ todo # <<>> /\ todo[1] \in Ops /\ Perform(todo[1])
      /\ lost' = IF rewriting THEN lost \cup (acked \ OnDisk(parts')) ELSE lost
  BY CancelDisk
<1>2. ASSUME NEW x \in acked \ (lost' \cup doubled) PROVE x \in OnDisk(parts')
  <2>1. CASE rewriting
    BY <1>1, <1>2, <2>1
  <2>2. CASE ~rewriting
    <3>1. PICK i \in DOMAIN messages : /\ x \in Stands(messages[i]) /\ Safe(messages[i])
                                       /\ ~(Stands(messages[i]) \subseteq doubled)
      BY <1>1, <1>2, <2>2, AckedSafe
    <3>2. messages[i].seq \in DOMAIN parts' /\ parts'[messages[i].seq] = messages[i]
      <4>1. CASE todo = <<>> /\ UNCHANGED diskVars
        BY <3>1, <4>1 DEF Safe, diskVars
      <4>2. CASE todo # <<>> /\ todo[1] \in Ops /\ Perform(todo[1])
        BY <3>1, <4>2, PerformKeeps
      <4> QED BY <1>1, <4>1, <4>2
    <3> QED BY <3>1, <3>2, OnDiskHas
  <2> QED BY <2>1, <2>2
<1> QED BY <1>1, <1>2, StoppedStore

\* when the process dies,
LEMMA CrashStore == ASSUME TypeInv, CallInv, RisingInv, StoreInv, Crash PROVE StoreInv'
<1>1. /\ Stopped /\ up
      /\ \/ todo = <<>> /\ UNCHANGED diskVars
         \/ todo # <<>> /\ todo[1] \in Ops /\ Tear(todo[1])
      /\ lost' = IF rewriting THEN lost \cup (IF meta' THEN acked \ OnDisk(parts') ELSE acked) ELSE lost
  BY CrashDisk
<1>2. ASSUME NEW x \in acked \ (lost' \cup doubled) PROVE x \in OnDisk(parts')
  <2>1. CASE rewriting
    BY <1>1, <1>2, <2>1
  <2>2. CASE ~rewriting
    <3>1. PICK i \in DOMAIN messages : /\ x \in Stands(messages[i]) /\ Safe(messages[i])
                                       /\ ~(Stands(messages[i]) \subseteq doubled) /\ ~IsPending(messages[i])
      BY <1>1, <1>2, <2>2, AckedSafe
    <3> DEFINE m == messages[i]
    <3>2. m.seq \in DOMAIN parts /\ parts[m.seq] = m
      BY <3>1 DEF Safe
    <3>3. m.seq \in DOMAIN parts' /\ parts'[m.seq] = m
      <4>1. CASE todo = <<>> /\ UNCHANGED diskVars
        BY <3>2, <4>1 DEF diskVars
      <4>2. CASE todo # <<>> /\ todo[1] \in Ops /\ Tear(todo[1])
        <5> DEFINE f == todo[1]
        <5>1. DiskInv /\ meta \in BOOLEAN /\ 1 \in DOMAIN todo
          BY <4>2, NextOp DEF TypeInv, CountInv
        <5>2. /\ \A s \in DOMAIN parts' : s \in DOMAIN parts /\ parts'[s] = parts[s]
              /\ f.op # "part" /\ f.op # "delete" => UNCHANGED parts
              /\ f.op = "part" => DOMAIN parts \ DOMAIN parts' \subseteq {f.part.seq}
          BY <4>2, <5>1, TearDisk
        <5>3. f.op # "delete"
          BY <2>2, <5>1 DEF CallInv, Places
        <5>4. CASE f.op = "part"
          <6>1. 1 \in Places("part")
            BY <5>1, <5>4 DEF Places
          <6>2. PICK j \in DOMAIN messages : messages[j] = f.part
            BY <6>1 DEF CallInv
          <6>3. f.part # m
            BY <3>1, <6>1 DEF IsPending
          <6>4. f.part.seq # m.seq
            <7>1. SUFFICES ASSUME f.part.seq = m.seq PROVE FALSE
              OBVIOUS
            <7>2. i # j /\ i \in Int /\ j \in Int
              BY <6>2, <6>3, NumbersAre
            <7>3. i < j \/ j < i
              BY <7>2
            <7> QED BY <3>1, <6>2, <7>1, <7>3 DEF RisingInv
          <6> QED BY <3>2, <5>2, <5>4, <6>4
        <5>5. CASE f.op # "part"
          BY <3>2, <5>2, <5>3, <5>5
        <5> QED BY <5>4, <5>5
      <4> QED BY <1>1, <4>1, <4>2
    <3> QED BY <3>1, <3>3, OnDiskHas
  <2> QED BY <2>1, <2>2
<1> QED BY <1>1, <1>2, StoppedStore

----------------------------------------------------------------------------
(* Starts.                                                                 *)

\* when the session is resumed,
LEMMA ResumeStore == ASSUME TypeInv, CallInv, StoreInv, Resume PROVE StoreInv'
<1>1. /\ ~up /\ up' = TRUE
      /\ messages' = IF meta THEN Restored ELSE <<>>
      /\ UNCHANGED <<todo, diskVars, acked, lost, doubled>>
  BY DEF Resume, callVars
<1>2. todo = <<>> /\ (~meta => acked \subseteq lost) /\ DiskInv
  BY <1>1 DEF CallInv, TypeInv
<1>3. Places("delete")' = {}
  BY <1>1, <1>2 DEF Places
<1>4. /\ \A i \in DOMAIN Restored : Restored[i].seq \in DOMAIN parts /\ parts[Restored[i].seq] = Restored[i]
      /\ \A s \in DOMAIN parts : \E i \in DOMAIN Restored : Restored[i] = parts[s]
  BY <1>2, RestoredIs
<1>5. ASSUME NEW i \in DOMAIN messages' PROVE Safe(messages[i])'
  <2>1. messages' = Restored
    BY <1>1
  <2> QED BY <1>1, <1>3, <1>4, <2>1 DEF Safe, diskVars
<1>6. ASSUME NEW x \in acked \ (lost \cup doubled) PROVE x \in Covered(messages')
  <2>1. meta
    BY <1>2, <1>6
  <2>2. x \in OnDisk(parts)
    BY <1>1, <1>6 DEF StoreInv
  <2>3. PICK s \in DOMAIN parts : x \in Stands(parts[s])
    BY <2>2 DEF OnDisk, Covered
  <2>4. messages' = Restored
    BY <1>1, <2>1
  <2> QED BY <1>4, <2>3, <2>4 DEF Covered
<1> QED BY <1>1, <1>5, <1>6 DEF StoreInv

\* and when a new event leaves its marker.
LEMMA NewEventStore == ASSUME TypeInv, CallInv, StoreInv, NewEvent PROVE StoreInv'
<1>1. /\ ~up /\ UNCHANGED <<up, memVars, acked, lost>>
      /\ \/ UNCHANGED <<parts, doubled>>
         \/ \E m \in Message :
              /\ parts' = Put(m)
              /\ doubled' = IF m.seq \in DOMAIN parts THEN doubled \cup Stands(parts[m.seq]) ELSE doubled
  BY NewEventIs
<1>2. messages' = <<>> /\ ~up'
  BY <1>1 DEF CallInv, memVars
<1>3. acked \ (lost \cup doubled) \subseteq OnDisk(parts)
  BY <1>1 DEF StoreInv
<1>4. ASSUME NEW x \in acked \ (lost \cup doubled') PROVE x \in OnDisk(parts')
  <2>1. CASE UNCHANGED <<parts, doubled>>
    BY <1>3, <1>4, <2>1
  <2>2. ASSUME NEW m \in Message, parts' = Put(m),
               doubled' = IF m.seq \in DOMAIN parts THEN doubled \cup Stands(parts[m.seq]) ELSE doubled
        PROVE  x \in OnDisk(parts')
    <3>1. x \notin doubled
      BY <1>4, <2>2
    <3>2. PICK s \in DOMAIN parts : x \in Stands(parts[s])
      BY <1>3, <1>4, <3>1 DEF OnDisk, Covered
    <3>3. s # m.seq
      BY <1>4, <2>2, <3>2
    <3>4. s \in DOMAIN parts' /\ parts'[s] = parts[s]
      BY <2>2, <3>3 DEF Put
    <3> QED BY <3>2, <3>4, OnDiskHas
  <2> QED BY <1>1, <2>1, <2>2
<1> QED BY <1>1, <1>2, <1>4 DEF StoreInv

----------------------------------------------------------------------------
(* What is stored, from the first state on.                                *)

\* A conversation that has begun anew stays one.
LEMMA RestartedStays == ASSUME [Next]_vars, restarted PROVE restarted'
<1>1. CASE Write
  BY <1>1 DEF Write
<1>2. CASE AddUser \/ AddAssistant \/ AddToolResult
  BY <1>2 DEF AddUser, AddAssistant, AddToolResult, Add
<1>3. CASE (\E k \in OutputKeys : SetOutput(k)) \/ Checkpoint \/ Handover
  BY <1>3 DEF SetOutput, Checkpoint, Handover
<1>4. CASE Compact
  BY <1>4 DEF Compact
<1>5. CASE CompactStructure
  BY <1>5, Zenon DEF CompactStructure
<1>6. CASE Prune \/ Resume
  BY <1>6 DEF Prune, Resume
<1>7. CASE Crash \/ Cancel
  BY <1>7 DEF Crash, Cancel, Stop
<1>8. CASE NewEvent
  BY <1>8 DEF NewEvent
<1>9. CASE UNCHANGED vars
  BY <1>9 DEF vars
<1> QED BY <1>1, <1>2, <1>3, <1>4, <1>5, <1>6, <1>7, <1>8, <1>9 DEF Next

\* A step that changes nothing keeps all of it.
LEMMA UnchangedStored == ASSUME OrderInv, StoreInv, UNCHANGED vars PROVE OrderInv' /\ StoreInv'
<1>1. UNCHANGED <<up, messages, nextSeq, todo, parts, cursor, acked, lost, doubled>>
  BY DEF vars, memVars, callVars, diskVars
<1>2. RisingInv' /\ FilesInv' /\ CursorInv'
  BY <1>1 DEF OrderInv, RisingInv, FilesInv, CursorInv, Places
<1>3. StoreInv'
  BY <1>1 DEF StoreInv, Safe, IsPending, Places
<1> QED BY <1>2, <1>3 DEF OrderInv

\* Every step keeps numbers and files in order.
LEMMA StoredStep == ASSUME IInv, [Next]_vars PROVE StoredInv'
<1>0. TypeInv /\ CallInv
  BY DEF IInv
<1>1. SUFFICES ASSUME ~restarted' PROVE OrderInv' /\ StoreInv'
  BY DEF StoredInv
<1>2. ~restarted
  BY <1>1, RestartedStays
<1>3. OrderInv /\ RisingInv /\ StoreInv
  BY <1>2 DEF IInv, StoredInv, OrderInv
<1>4. CASE Write
  BY <1>0, <1>3, <1>4, WriteOrder, WriteStore
<1>5. ASSUME NEW m, Adds(m) PROVE OrderInv' /\ StoreInv'
  BY <1>0, <1>3, <1>5, AddsOrder, AddsStore
<1>6. CASE AddUser \/ AddAssistant \/ AddToolResult \/ Handover
  BY <1>0, <1>5, <1>6, AddUserAdds, AddAssistantAdds, AddToolResultAdds, HandoverAdds
<1>7. ASSUME NEW c, Marks(c) PROVE OrderInv' /\ StoreInv'
  BY <1>0, <1>3, <1>7, MarksOrder, MarksStore
<1>8. CASE (\E k \in OutputKeys : SetOutput(k)) \/ Checkpoint
  BY <1>0, <1>7, <1>8, SetOutputMarks, CheckpointMarks
<1>9. ASSUME NEW m, NEW g, NEW r, Shortens(m, g, r) PROVE OrderInv' /\ StoreInv'
  BY <1>0, <1>3, <1>9, ShortensOrder, ShortensStore
<1>10. CASE Compact \/ CompactStructure
  BY <1>0, <1>9, <1>10, CompactShortens, CompactStructureShortens
<1>11. CASE Prune
  BY <1>0, <1>3, <1>11, PruneOrder, PruneStore
<1>12. CASE Crash
  BY <1>0, <1>3, <1>12, CrashOrder, CrashStore
<1>13. CASE Cancel
  BY <1>0, <1>3, <1>13, CancelOrder, CancelStore
<1>14. CASE Resume
  BY <1>0, <1>1, <1>3, <1>14, ResumeOrder, ResumeStore
<1>15. CASE NewEvent
  BY <1>0, <1>3, <1>15, NewEventOrder, NewEventStore
<1>16. CASE UNCHANGED vars
  BY <1>3, <1>16, UnchangedStored
<1> QED BY <1>4, <1>6, <1>8, <1>10, <1>11, <1>12, <1>13, <1>14, <1>15, <1>16 DEF Next

\* So they are at first.
LEMMA StoredInit == Init => StoredInv
<1>1. SUFFICES ASSUME Init PROVE OrderInv /\ StoreInv
  BY DEF StoredInv
<1>2. /\ messages = <<>> /\ nextSeq = 0 /\ todo = <<>> /\ parts = <<>> /\ cursor = NoCursor /\ up = TRUE /\ acked = {}
  BY <1>1 DEF Init
<1>3. Places("part") = {} /\ Places("cursor") = {} /\ DOMAIN parts = {} /\ DOMAIN messages = {}
  BY <1>2 DEF Places
<1>4. RisingInv /\ FilesInv /\ CursorInv
  BY <1>2, <1>3 DEF RisingInv, FilesInv, CursorInv
<1>5. StoreInv
  BY <1>2, <1>3 DEF StoreInv
<1> QED BY <1>4, <1>5 DEF OrderInv

\* The invariant holds throughout.
LEMMA Invariant == Spec => []IInv
<1>1. Init => IInv
  BY CallInit, StoredInit DEF IInv
<1>2. IInv /\ [Next]_vars => IInv'
  BY CallStep, StoredStep DEF IInv
<1> QED BY <1>1, <1>2, PTL DEF Spec

\* All of the state keeps its types and limits (TypeOK): the lists, the files, of
\* which each holds the message whose number it has, and the histories.
THEOREM TypeCorrect == Spec => []TypeOK
<1>1. IInv => TypeOK
  BY TypeInvIsTypeOK DEF IInv
<1> QED BY <1>1, Invariant, PTL

\* A message whose add_*() has returned stays in the files, by itself or in a
\* summary, through writes, compactions, cancellations and crashes, for any number
\* of them and any number of messages (AckedKept, with its exceptions).
THEOREM AckedStaysKept == Spec => []AckedKept
<1>1. ASSUME IInv PROVE AckedKept
  <2>1. SUFFICES ASSUME ~rewriting, ~restarted, NEW x \in acked \ (lost \cup doubled) PROVE x \in OnDisk(parts)
    BY DEF AckedKept
  <2>2. TypeInv /\ CallInv /\ StoreInv
    BY <1>1, <2>1 DEF IInv, StoredInv
  <2>3. CASE up
    <3>1. PICK i \in DOMAIN messages : x \in Stands(messages[i]) /\ Safe(messages[i])
      BY <2>1, <2>2, <2>3, AckedSafe
    <3> QED BY <3>1, OnDiskHas DEF Safe
  <2>4. CASE ~up
    BY <2>1, <2>2, <2>4 DEF StoreInv
  <2> QED BY <2>3, <2>4
<1>2. IInv => AckedKept
  BY <1>1
<1> QED BY <1>2, Invariant, PTL

\* Between two calls all that the LLM is shown is in the files, also what a
\* resumed session read of messages that were never acknowledged
\* (RememberedIsStored).
THEOREM ShownIsStored == Spec => []RememberedIsStored
<1>1. ASSUME IInv PROVE RememberedIsStored
  <2>1. SUFFICES ASSUME Idle, ~restarted, NEW x \in Covered(messages) \ doubled PROVE x \in OnDisk(parts)
    BY DEF RememberedIsStored
  <2>2. StoreInv /\ todo = <<>>
    BY <1>1, <2>1 DEF IInv, StoredInv, Idle
  <2>3. PICK i \in DOMAIN messages : x \in Stands(messages[i])
    BY <2>1 DEF Covered
  <2>4. Safe(messages[i])
    BY <2>1, <2>2, <2>3 DEF StoreInv, IsPending, Places
  <2> QED BY <2>3, <2>4, OnDiskHas DEF Safe
<1>2. IInv => RememberedIsStored
  BY <1>1
<1> QED BY <1>2, Invariant, PTL

----------------------------------------------------------------------------
(* The view of the LLM.                                                    *)

\* What FlattenSeq() computes step by step: the first n sequences, joined.
Joined(ss, f, n) == f = [i \in 1..n |-> IF i = 1 THEN ss[i] ELSE f[i - 1] \o ss[i]]

\* There is such a function: defined for n lists, it can be for one more.
LEMMA JoinedExists ==
  ASSUME NEW ss, NEW n \in Nat PROVE \E f : Joined(ss, f, n)
<1> DEFINE Bad == {k \in Nat : ~\E f : Joined(ss, f, k)}
<1>1. SUFFICES ASSUME Bad # {} PROVE FALSE
  OBVIOUS
<1>2. PICK k \in Bad : \A j \in Bad : k <= j
  BY <1>1, Least
<1>3. k \in Nat /\ ~\E f : Joined(ss, f, k)
  OBVIOUS
<1>4. CASE k = 0
  <2>1. Joined(ss, [i \in 1..0 |-> <<>>], 0)
    <3>1. 1..0 = {}
      OBVIOUS
    <3> QED BY <3>1 DEF Joined
  <2> QED BY <1>3, <1>4, <2>1
<1>5. CASE k # 0
  <2>1. k - 1 \in Nat /\ ~(k <= k - 1)
    BY <1>3, <1>5
  <2>2. PICK f : Joined(ss, f, k - 1)
    BY <1>2, <2>1
  <2> DEFINE g == [i \in 1..k |-> IF i < k THEN f[i] ELSE IF k = 1 THEN ss[1] ELSE f[k - 1] \o ss[k]]
  <2>3. ASSUME NEW i \in 1..k PROVE g[i] = IF i = 1 THEN ss[i] ELSE g[i - 1] \o ss[i]
    <3>1. CASE i = k
      <4>1. i # 1 => i - 1 \in 1..k /\ i - 1 < k
        BY <1>3, <3>1
      <4> QED BY <3>1, <4>1, <1>3
    <3>2. CASE i # k
      <4>1. i \in 1..(k - 1) /\ i < k
        BY <1>3, <3>2
      <4>2. f[i] = IF i = 1 THEN ss[i] ELSE f[i - 1] \o ss[i]
        BY <2>2, <4>1 DEF Joined
      <4>3. i # 1 => i - 1 \in 1..k /\ i - 1 < k
        BY <1>3, <4>1
      <4> QED BY <4>1, <4>2, <4>3
    <3> QED BY <3>1, <3>2
  <2>4. Joined(ss, g, k)
    <3>1. g = [i \in 1..k |-> g[i]]
      OBVIOUS
    <3> HIDE DEF g
    <3>2. [i \in 1..k |-> g[i]] = [i \in 1..k |-> IF i = 1 THEN ss[i] ELSE g[i - 1] \o ss[i]]
      BY <2>3
    <3> QED BY <3>1, <3>2 DEF Joined
  <2> QED BY <1>3, <2>4
<1> QED BY <1>4, <1>5

\* Where the sequences begin.
Place(f, i) == IF i = 0 THEN 0 ELSE Len(f[i])

\* The i-th step holds each of the first i sequences at its place.
Holds(ss, f, i) ==
  \A j \in 1..i : \A k \in 1..Len(ss[j]) :
    Place(f, j - 1) + k \in 1..Len(f[i]) /\ f[i][Place(f, j - 1) + k] = ss[j][k]

\* Its values are lists.
LEMMA JoinedType ==
  ASSUME NEW S, NEW ss \in Seq(Seq(S)), NEW f, Joined(ss, f, Len(ss)), NEW i \in 1..Len(ss)
  PROVE  f[i] \in Seq(S)
<1> DEFINE Bad == {k \in Nat : k \in 1..Len(ss) /\ f[k] \notin Seq(S)}
<1>1. SUFFICES ASSUME Bad # {} PROVE FALSE
  <2>1. i \in Nat
    BY Len(ss) \in Nat
  <2> QED BY <2>1
<1>2. PICK k \in Bad : \A j \in Bad : k <= j
  BY <1>1, Least
<1>3. k \in 1..Len(ss) /\ f[k] \notin Seq(S) /\ ss[k] \in Seq(S)
  OBVIOUS
<1>4. f[k] = IF k = 1 THEN ss[k] ELSE f[k - 1] \o ss[k]
  BY <1>3 DEF Joined
<1>5. CASE k = 1
  BY <1>3, <1>4, <1>5
<1>6. CASE k # 1
  <2>1. k - 1 \in Nat /\ k - 1 \in 1..Len(ss) /\ ~(k <= k - 1)
    BY <1>3, <1>6
  <2>2. f[k - 1] \in Seq(S)
    BY <1>2, <2>1
  <2> QED BY <1>3, <1>4, <1>6, <2>2
<1> QED BY <1>5, <1>6

\* Where a place of a list is, in lists joined.
LEMMA Within ==
  ASSUME NEW a \in Nat, NEW b \in Nat
  PROVE  /\ \A x \in 1..a : x \in 1..a + b
         /\ \A x \in 1..b : a + x \in 1..a + b
OBVIOUS

\* The joined lists hold each list, where the ones before it end.
LEMMA JoinedHolds ==
  ASSUME NEW S, NEW ss \in Seq(Seq(S)), NEW f, Joined(ss, f, Len(ss)), NEW i \in 1..Len(ss)
  PROVE  Holds(ss, f, i) /\ Len(f[i]) = Place(f, i - 1) + Len(ss[i])
<1> DEFINE n == Len(ss)
           Fine(k) == Holds(ss, f, k) /\ Len(f[k]) = Place(f, k - 1) + Len(ss[k])
           Bad == {k \in Nat : k \in 1..n /\ ~Fine(k)}
<1>0. n \in Nat
  OBVIOUS
<1> HIDE DEF n
<1>1. SUFFICES ASSUME Bad # {} PROVE FALSE
  <2>1. i \in Nat /\ i \in 1..n
    BY <1>0 DEF n
  <2>2. Fine(i) => Holds(ss, f, i) /\ Len(f[i]) = Place(f, i - 1) + Len(ss[i])
    OBVIOUS
  <2> HIDE DEF Fine
  <2> QED BY <2>1, <2>2
<1>2. PICK k \in Bad : \A j \in Bad : k <= j
  <2> HIDE DEF Bad
  <2> QED BY <1>1, Least DEF Bad
<1>3. k \in 1..n /\ ~Fine(k)
  OBVIOUS
<1>4. f[k] = IF k = 1 THEN ss[k] ELSE f[k - 1] \o ss[k]
  BY <1>3 DEF Joined, n
<1>5. ss[k] \in Seq(S) /\ f[k] \in Seq(S)
  BY <1>3, JoinedType DEF n
<1>6. CASE k = 1
  <2>1. Place(f, k - 1) = 0 /\ f[k] = ss[k]
    BY <1>4, <1>6 DEF Place
  <2>2. Len(f[k]) = Place(f, k - 1) + Len(ss[k])
    BY <1>5, <2>1
  <2>3. \A j \in 1..k : j = k
    BY <1>6
  <2>4. Holds(ss, f, k)
    <3>1. \A l \in 1..Len(ss[k]) : 0 + l = l
      BY <1>5
    <3> QED BY <2>1, <2>3, <3>1 DEF Holds
  <2> QED BY <1>3, <2>2, <2>4
<1>7. CASE k # 1
  <2>1. k - 1 \in Nat /\ k - 1 \in 1..n /\ ~(k <= k - 1) /\ k - 1 # 0
    BY <1>0, <1>3, <1>7
  <2>2. Fine(k - 1)
    BY <1>2, <2>1
  <2>3. f[k] = f[k - 1] \o ss[k]
    BY <1>4, <1>7
  <2>4. f[k - 1] \in Seq(S)
    BY <2>1, JoinedType DEF n
  <2>5. /\ Len(f[k]) = Len(f[k - 1]) + Len(ss[k])
        /\ \A l \in 1..Len(f[k - 1]) : f[k][l] = f[k - 1][l]
        /\ \A l \in 1..Len(ss[k]) : f[k][Len(f[k - 1]) + l] = ss[k][l]
    <3> DEFINE a == f[k - 1]
               b == ss[k]
    <3>1. a \in Seq(S) /\ b \in Seq(S) /\ f[k] = a \o b
      BY <1>5, <2>3, <2>4
    <3> HIDE DEF a, b
    <3>2. /\ Len(a \o b) = Len(a) + Len(b)
          /\ \A l \in 1..Len(a) : (a \o b)[l] = a[l]
          /\ \A l \in 1..Len(b) : (a \o b)[Len(a) + l] = b[l]
      BY <3>1, JoinIs
    <3>3. /\ Len(f[k]) = Len(a) + Len(b)
          /\ \A l \in 1..Len(a) : f[k][l] = a[l]
          /\ \A l \in 1..Len(b) : f[k][Len(a) + l] = b[l]
      BY <3>1, <3>2
    <3> QED BY <3>3 DEF a, b
  <2>6. Place(f, k - 1) = Len(f[k - 1])
    BY <2>1 DEF Place
  <2>7. Len(f[k - 1]) \in Nat /\ Len(ss[k]) \in Nat /\ Len(f[k]) = Len(f[k - 1]) + Len(ss[k])
    BY <1>5, <2>4, <2>5
  <2>8. ASSUME NEW j \in 1..k, NEW l \in 1..Len(ss[j])
        PROVE  Place(f, j - 1) + l \in 1..Len(f[k]) /\ f[k][Place(f, j - 1) + l] = ss[j][l]
    <3>1. CASE j = k
      <4>1. l \in 1..Len(ss[k])
        BY <3>1
      <4>2. Len(f[k - 1]) + l \in 1..Len(f[k])
        BY <2>7, <4>1, Within
      <4> QED BY <2>5, <2>6, <3>1, <4>1, <4>2
    <3>2. CASE j # k
      <4>1. j \in 1..(k - 1)
        BY <1>3, <3>2
      <4>2. Place(f, j - 1) + l \in 1..Len(f[k - 1]) /\ f[k - 1][Place(f, j - 1) + l] = ss[j][l]
        BY <2>2, <4>1 DEF Holds
      <4>3. \A x \in 1..Len(f[k - 1]) : x \in 1..Len(f[k])
        BY <2>7, Within
      <4> QED BY <2>5, <4>2, <4>3
    <3> QED BY <3>1, <3>2
  <2>9. Holds(ss, f, k)
    BY <2>8 DEF Holds
  <2> QED BY <1>3, <2>5, <2>6, <2>9
<1> QED BY <1>6, <1>7

\* A flattened sequence holds each sequence at its place, one behind the other.
LEMMA FlattenIs ==
  ASSUME NEW S, NEW ss \in Seq(Seq(S))
  PROVE  /\ FlattenSeq(ss) \in Seq(S)
         /\ \E off \in [0..Len(ss) -> Nat] :
              /\ off[0] = 0 /\ off[Len(ss)] = Len(FlattenSeq(ss))
              /\ \A i \in 1..Len(ss) :
                   /\ off[i] = off[i - 1] + Len(ss[i])
                   /\ \A k \in 1..Len(ss[i]) :
                        /\ off[i - 1] + k \in 1..Len(FlattenSeq(ss))
                        /\ FlattenSeq(ss)[off[i - 1] + k] = ss[i][k]
<1> DEFINE n == Len(ss)
<1>0. n \in Nat
  OBVIOUS
<1>1. CASE n = 0
  <2>1. FlattenSeq(ss) = ss /\ ss = <<>>
    BY <1>1 DEF FlattenSeq
  <2> DEFINE o == [i \in 0..0 |-> 0]
  <2>2. o \in [0..Len(ss) -> Nat] /\ o[0] = 0 /\ o[Len(ss)] = Len(FlattenSeq(ss))
    BY <1>1, <2>1
  <2>3. 1..Len(ss) = {}
    BY <1>1
  <2> HIDE DEF o
  <2>4. FlattenSeq(ss) \in Seq(S)
    BY <2>1
  <2> QED BY <2>2, <2>3, <2>4
<1>2. CASE n # 0
  <2>1. PICK f : Joined(ss, f, n) /\ FlattenSeq(ss) = f[n]
    <3>1. FlattenSeq(ss) = (CHOOSE f : Joined(ss, f, n))[n]
      BY <1>2 DEF FlattenSeq, Joined
    <3>2. \E f : Joined(ss, f, n)
      BY <1>0, JoinedExists
    <3> HIDE DEF n
    <3> QED BY <3>1, <3>2
  <2> DEFINE v == FlattenSeq(ss)
  <2>2. n \in 1..n
    BY <1>0, <1>2
  <2>3. v \in Seq(S)
    BY <2>1, <2>2, JoinedType
  <2> DEFINE off == [i \in 0..n |-> Place(f, i)]
  <2>4. ASSUME NEW i \in 1..n PROVE f[i] \in Seq(S) /\ Len(f[i]) \in Nat /\ i - 1 \in 0..n /\ i \in 0..n /\ i # 0
    BY <2>1, JoinedType
  <2>5. off \in [0..n -> Nat]
    <3>1. ASSUME NEW i \in 0..n PROVE Place(f, i) \in Nat
      <4>1. i = 0 \/ i \in 1..n
        BY <1>0
      <4> QED BY <2>4, <4>1 DEF Place
    <3> QED BY <3>1
  <2>6. off[0] = 0 /\ off[n] = Len(v)
    <3>1. 0 \in 0..n /\ n \in 0..n
      BY <1>0
    <3> QED BY <2>1, <3>1, <1>2 DEF Place
  <2>7. ASSUME NEW i \in 1..n
        PROVE  /\ off[i] = off[i - 1] + Len(ss[i])
               /\ \A k \in 1..Len(ss[i]) : off[i - 1] + k \in 1..Len(v) /\ v[off[i - 1] + k] = ss[i][k]
    <3>1. off[i - 1] = Place(f, i - 1) /\ off[i] = Len(f[i])
      BY <2>4 DEF Place
    <3>2. Len(f[i]) = Place(f, i - 1) + Len(ss[i])
      BY <2>1, JoinedHolds
    <3>3. Holds(ss, f, n)
      BY <2>1, <2>2, JoinedHolds
    <3> HIDE DEF off, n, v
    <3> QED BY <2>1, <3>1, <3>2, <3>3 DEF Holds, v
  <2> HIDE DEF off
  <2> QED BY <2>3, <2>5, <2>6, <2>7
<1> QED BY <1>1, <1>2

\* A set as a list holds each member once.
LEMMA SetToSeqIs ==
  ASSUME NEW T, IsFiniteSet(T)
  PROVE  /\ SetToSeq(T) \in Seq(T)
         /\ \A x \in T : \E k \in 1..Len(SetToSeq(T)) : SetToSeq(T)[k] = x
         /\ \A k, l \in 1..Len(SetToSeq(T)) : SetToSeq(T)[k] = SetToSeq(T)[l] => k = l
<1> DEFINE n == Cardinality(T)
           f == SetToSeq(T)
<1>1. n \in Nat /\ Bijection(1..n, T) # {}
  BY FS_CardinalityType DEF ExistsBijection
<1>2. f \in [1..n -> T] /\ IsInjective(f)
  <2>1. \E g \in [1..n -> T] : IsInjective(g)
    BY <1>1 DEF Bijection, Injection
  <2> QED BY <2>1 DEF SetToSeq
<1>3. f \in Injection(1..n, T) /\ f \in Seq(T) /\ Len(f) = n
  BY <1>1, <1>2 DEF Injection
<1>4. Cardinality(1..n) = n
  <2>1. n \in Int /\ 1 \in Int /\ (IF 1 > n THEN 0 ELSE n - 1 + 1) = n
    BY <1>1
  <2> HIDE DEF n
  <2>2. Cardinality(1..n) = IF 1 > n THEN 0 ELSE n - 1 + 1
    BY <2>1, FS_Interval
  <2> QED BY <2>1, <2>2
<1>5. f \in Surjection(1..n, T)
  <2>1. Cardinality(1..n) = Cardinality(T)
    BY <1>4
  <2> HIDE DEF f, n
  <2> QED BY <1>3, <2>1, FS_Injection
<1>6. \A x \in T : \E k \in 1..n : f[k] = x
  BY <1>5 DEF Surjection
<1>7. \A k, l \in 1..n : f[k] = f[l] => k = l
  BY <1>2 DEF IsInjective
<1> QED BY <1>3, <1>6, <1>7

\* There are finitely many calls.
LEMMA CallsFinite == ASSUME NEW D \in SUBSET CallIds PROVE IsFiniteSet(D)
<1>1. MaxMessages \in Int /\ MaxCalls \in Int /\ 1 \in Int
  BY ConversationAssumption
<1>2. IsFiniteSet(1..MaxMessages) /\ IsFiniteSet(1..MaxCalls)
  BY <1>1, FS_Interval
<1>3. IsFiniteSet(CallIds)
  BY <1>2, FS_Product DEF CallIds
<1> QED BY <1>3, FS_Subset

\* The results that are made up for calls.
LEMMA PatchesAre ==
  ASSUME NEW D \in SUBSET CallIds, NEW q, q = SetToSeq({Patch(c) : c \in D})
  PROVE  /\ q \in Seq({Patch(c) : c \in CallIds})
         /\ \A k \in 1..Len(q) : q[k].call \in D
         /\ \A c \in D : \E k \in 1..Len(q) : q[k].call = c
         /\ \A k, l \in 1..Len(q) : q[k].call = q[l].call => k = l
<1> DEFINE T == {Patch(c) : c \in D}
<1>1. IsFiniteSet(T)
  <2> DEFINE f == [c \in D |-> Patch(c)]
  <2>1. f \in Surjection(D, T)
    BY DEF Surjection
  <2>2. IsFiniteSet(D)
    BY CallsFinite
  <2> HIDE DEF f, T
  <2> QED BY <2>1, <2>2, FS_Surjection
<1>2. q = SetToSeq(T)
  OBVIOUS
<1>3. \A x \in T : x.call \in D /\ x = Patch(x.call)
  BY DEF Patch
<1>4. \A c \in D : Patch(c) \in T /\ Patch(c).call = c
  BY DEF Patch
<1>5. T \subseteq {Patch(c) : c \in CallIds}
  OBVIOUS
<1> HIDE DEF T
<1>6. /\ q \in Seq(T)
      /\ \A x \in T : \E k \in 1..Len(q) : q[k] = x
      /\ \A k, l \in 1..Len(q) : q[k] = q[l] => k = l
  <2> DEFINE u == SetToSeq(T)
  <2>1. /\ u \in Seq(T)
        /\ \A x \in T : \E k \in 1..Len(u) : u[k] = x
        /\ \A k, l \in 1..Len(u) : u[k] = u[l] => k = l
    BY <1>1, SetToSeqIs
  <2>2. q = u
    BY <1>2
  <2> HIDE DEF u
  <2> QED BY <2>1, <2>2
<1>7. \A k \in 1..Len(q) : q[k] \in T
  BY <1>6
<1>8. q \in Seq({Patch(c) : c \in CallIds})
  BY <1>5, <1>6
<1>9. \A k \in 1..Len(q) : q[k].call \in D
  BY <1>3, <1>7
<1>10. ASSUME NEW c \in D PROVE \E k \in 1..Len(q) : q[k].call = c
  <2>1. PICK k \in 1..Len(q) : q[k] = Patch(c)
    BY <1>4, <1>6
  <2>2. Patch(c).call = c
    BY <1>4
  <2> QED BY <2>1, <2>2
<1>11. ASSUME NEW k \in 1..Len(q), NEW l \in 1..Len(q), q[k].call = q[l].call PROVE k = l
  <2>1. q[k] = q[l]
    BY <1>3, <1>7, <1>11
  <2> QED BY <1>6, <2>1
<1> QED BY <1>8, <1>9, <1>10, <1>11

\* What a list of messages fulfils: a result comes behind the message with its
\* call, other results between them at most, and none comes twice.
Paired(ms) ==
  /\ ms \in Seq(Message)
  /\ \A i \in 1..Len(ms) : /\ ms[i].kind = "tool" <=> ms[i].call # NoCall
                           /\ ms[i].kind = "tool" => ms[i].calls = {}
  /\ \A i \in 1..Len(ms) : ms[i].kind = "tool" /\ ms[i].call \in AllCalls(ms) =>
       \E p \in 1..Len(ms) : /\ p < i /\ ms[i].call \in ms[p].calls
                             /\ \A l \in p + 1..i : ms[l].kind = "tool"
  /\ \A i, j \in 1..Len(ms) : ms[i].kind = "tool" /\ ms[j].kind = "tool" /\ ms[i].call = ms[j].call => i = j

\* A result without its call is dropped.
Dropped(ms, i) == ms[i].kind = "tool" /\ ms[i].call \notin AllCalls(ms)

\* The calls of message i that have no result.
Unanswered(ms, i) == ms[i].calls \ Answered(ms, i)

\* What r is, sent for message i.
RepairedTo(ms, i, r) ==
  /\ r \in Seq(Message \cup {Patch(c) : c \in CallIds}) /\ Len(r) \in Nat
  /\ Dropped(ms, i) <=> Len(r) = 0
  /\ ~Dropped(ms, i) => r[1] = ms[i]
  /\ \A k \in 2..Len(r) : r[k].call \in Unanswered(ms, i)
  /\ ~Dropped(ms, i) => \A c \in Unanswered(ms, i) : \E k \in 2..Len(r) : r[k].call = c
  /\ \A k, l \in 2..Len(r) : r[k].call = r[l].call => k = l

\* It is that,
LEMMA RepairHas ==
  ASSUME NEW ms, Paired(ms), NEW i \in 1..Len(ms), NEW r, r = Repair(ms, i)
  PROVE  RepairedTo(ms, i, r)
<1> DEFINE S == Message \cup {Patch(c) : c \in CallIds}
           D == Unanswered(ms, i)
           q == SetToSeq({Patch(c) : c \in D})
<1>1. ms[i] \in Message
  BY DEF Paired
<1>2. D \in SUBSET CallIds
  BY <1>1 DEF Unanswered, Message
<1>3. r = IF Dropped(ms, i) THEN <<>> ELSE <<ms[i]>> \o q
  BY DEF Repair, Dropped, Unanswered
<1>4. /\ q \in Seq({Patch(c) : c \in CallIds})
      /\ \A k \in 1..Len(q) : q[k].call \in D
      /\ \A c \in D : \E k \in 1..Len(q) : q[k].call = c
      /\ \A k, l \in 1..Len(q) : q[k].call = q[l].call => k = l
  <2> HIDE DEF D
  <2> QED BY <1>2, PatchesAre
<1> HIDE DEF q, D
<1>5. q \in Seq(S) /\ <<ms[i]>> \in Seq(S) /\ Len(<<ms[i]>>) = 1 /\ <<ms[i]>>[1] = ms[i] /\ Len(q) \in Nat
  BY <1>1, <1>4
<1> HIDE DEF S
<1>6. CASE Dropped(ms, i)
  <2>1. r = <<>>
    BY <1>3, <1>6
  <2>2. r \in Seq(S) /\ Len(r) = 0 /\ 2..Len(r) = {}
    BY <2>1
  <2> QED BY <1>6, <2>2 DEF S, RepairedTo
<1>7. CASE ~Dropped(ms, i)
  <2>1. /\ r \in Seq(S) /\ Len(r) = 1 + Len(q)
        /\ r[1] = ms[i]
        /\ \A k \in 1..Len(q) : r[1 + k] = q[k]
    <3> DEFINE a == <<ms[i]>>
    <3>1. a \in Seq(S) /\ Len(a) = 1 /\ a[1] = ms[i] /\ 1 \in 1..1
      BY <1>5
    <3>2. r = a \o q
      BY <1>3, <1>7
    <3> HIDE DEF a
    <3>3. /\ a \o q \in Seq(S) /\ Len(a \o q) = Len(a) + Len(q)
          /\ \A k \in 1..Len(a) : (a \o q)[k] = a[k]
          /\ \A k \in 1..Len(q) : (a \o q)[Len(a) + k] = q[k]
      <4>1. a \in Seq(S) /\ q \in Seq(S)
        BY <1>5, <3>1
      <4> QED BY <4>1, JoinIs
    <3> QED BY <3>1, <3>2, <3>3
  <2>2. Len(r) \in Nat /\ Len(r) # 0
    BY <1>5, <2>1
  <2>3. ASSUME NEW k \in 2..Len(r) PROVE k - 1 \in 1..Len(q) /\ 1 + (k - 1) = k /\ r[k] = q[k - 1]
    <3>1. k - 1 \in 1..Len(q) /\ 1 + (k - 1) = k
      BY <1>5, <2>1
    <3> QED BY <2>1, <3>1
  <2>4. \A k \in 2..Len(r) : r[k].call \in D
    BY <1>4, <2>3
  <2>5. ASSUME NEW c \in D PROVE \E k \in 2..Len(r) : r[k].call = c
    <3>1. PICK k \in 1..Len(q) : q[k].call = c
      BY <1>4
    <3>2. 1 + k \in 2..Len(r)
      BY <1>5, <2>1
    <3> QED BY <2>1, <3>1, <3>2
  <2>6. ASSUME NEW k \in 2..Len(r), NEW l \in 2..Len(r), r[k].call = r[l].call PROVE k = l
    <3>1. k - 1 \in 1..Len(q) /\ l - 1 \in 1..Len(q) /\ r[k] = q[k - 1] /\ r[l] = q[l - 1]
      BY <2>3
    <3>2. q[k - 1].call = q[l - 1].call
      BY <2>6, <3>1
    <3>3. k - 1 = l - 1
      BY <1>4, <3>1, <3>2
    <3> QED BY <3>3
  <2> QED BY <1>7, <2>1, <2>2, <2>4, <2>5, <2>6 DEF D, S, RepairedTo
<1> QED BY <1>6, <1>7

\* and so the message as it is sent.
LEMMA RepairIs ==
  ASSUME NEW ms, Paired(ms), NEW i \in 1..Len(ms)
  PROVE  /\ Repair(ms, i) \in Seq(Message \cup {Patch(c) : c \in CallIds}) /\ Len(Repair(ms, i)) \in Nat
         /\ Dropped(ms, i) <=> Len(Repair(ms, i)) = 0
         /\ ~Dropped(ms, i) => Repair(ms, i)[1] = ms[i]
         /\ \A k \in 2..Len(Repair(ms, i)) : Repair(ms, i)[k].call \in Unanswered(ms, i)
         /\ ~Dropped(ms, i) => \A c \in Unanswered(ms, i) : \E k \in 2..Len(Repair(ms, i)) : Repair(ms, i)[k].call = c
         /\ \A k, l \in 2..Len(Repair(ms, i)) : Repair(ms, i)[k].call = Repair(ms, i)[l].call => k = l
<1>1. RepairedTo(ms, i, Repair(ms, i))
  BY RepairHas
<1> QED BY <1>1 DEF RepairedTo

\* Where in the view the messages of a list begin.
Layout(ms, off) ==
  /\ off \in [0..Len(ms) -> Nat] /\ off[0] = 0 /\ off[Len(ms)] = Len(View(ms))
  /\ \A i \in 1..Len(ms) :
       /\ off[i] = off[i - 1] + Len(Repair(ms, i))
       /\ \A k \in 1..Len(Repair(ms, i)) :
            /\ off[i - 1] + k \in 1..Len(View(ms))
            /\ View(ms)[off[i - 1] + k] = Repair(ms, i)[k]

\* Each message has its place in the view.
LEMMA LayoutExists ==
  ASSUME NEW ms, Paired(ms)
  PROVE  /\ View(ms) \in Seq(Message \cup {Patch(c) : c \in CallIds})
         /\ \E off : Layout(ms, off)
<1> DEFINE S == Message \cup {Patch(c) : c \in CallIds}
           ss == [i \in DOMAIN ms |-> Repair(ms, i)]
<1>1. Len(ms) \in Nat /\ DOMAIN ms = 1..Len(ms)
  BY DEF Paired
<1>2. ASSUME NEW i \in 1..Len(ms) PROVE Repair(ms, i) \in Seq(S)
  BY RepairIs
<1> HIDE DEF S
<1>3. ss \in Seq(Seq(S)) /\ Len(ss) = Len(ms) /\ \A i \in 1..Len(ms) : ss[i] = Repair(ms, i)
  BY <1>1, <1>2
<1>4. View(ms) = FlattenSeq(ss)
  BY DEF View
<1> HIDE DEF ss
<1>5. /\ FlattenSeq(ss) \in Seq(S)
      /\ \E off \in [0..Len(ss) -> Nat] :
           /\ off[0] = 0 /\ off[Len(ss)] = Len(FlattenSeq(ss))
           /\ \A i \in 1..Len(ss) :
                /\ off[i] = off[i - 1] + Len(ss[i])
                /\ \A k \in 1..Len(ss[i]) :
                     /\ off[i - 1] + k \in 1..Len(FlattenSeq(ss))
                     /\ FlattenSeq(ss)[off[i - 1] + k] = ss[i][k]
  BY <1>3, FlattenIs
<1>6. PICK off \in [0..Len(ss) -> Nat] :
        /\ off[0] = 0 /\ off[Len(ss)] = Len(FlattenSeq(ss))
        /\ \A i \in 1..Len(ss) :
             /\ off[i] = off[i - 1] + Len(ss[i])
             /\ \A k \in 1..Len(ss[i]) :
                  /\ off[i - 1] + k \in 1..Len(FlattenSeq(ss))
                  /\ FlattenSeq(ss)[off[i - 1] + k] = ss[i][k]
  BY <1>5
<1>7. Layout(ms, off)
  <2>1. off \in [0..Len(ms) -> Nat] /\ off[0] = 0 /\ off[Len(ms)] = Len(View(ms))
    BY <1>3, <1>4, <1>6
  <2>2. ASSUME NEW i \in 1..Len(ms)
        PROVE  /\ off[i] = off[i - 1] + Len(Repair(ms, i))
               /\ \A k \in 1..Len(Repair(ms, i)) :
                    /\ off[i - 1] + k \in 1..Len(View(ms))
                    /\ View(ms)[off[i - 1] + k] = Repair(ms, i)[k]
    <3>1. ss[i] = Repair(ms, i) /\ i \in 1..Len(ss)
      BY <1>3
    <3> QED BY <1>4, <1>6, <3>1
  <2> QED BY <2>1, <2>2 DEF Layout
<1> QED BY <1>4, <1>5, <1>7 DEF S

\* Later messages begin later.
LEMMA LayoutRises ==
  ASSUME NEW ms, Paired(ms), NEW off, Layout(ms, off), NEW i \in 0..Len(ms), NEW j \in 0..Len(ms), i <= j
  PROVE  off[i] <= off[j]
<1>1. Len(ms) \in Nat
  BY DEF Paired
<1>2. \A k \in 0..Len(ms) : off[k] \in Nat
  BY DEF Layout
<1> DEFINE n == Len(ms)
           Bad == {k \in Nat : k \in i..n /\ ~(off[i] <= off[k])}
<1> HIDE DEF n
<1>3. SUFFICES ASSUME Bad # {} PROVE FALSE
  <2>1. j \in Nat /\ j \in i..n
    BY <1>1 DEF n
  <2> QED BY <2>1
<1>4. PICK k \in Bad : \A l \in Bad : k <= l
  <2> HIDE DEF Bad
  <2>1. Bad \in SUBSET Nat
    BY DEF Bad
  <2> QED BY <1>3, <2>1, Least
<1>5. k \in i..n /\ ~(off[i] <= off[k]) /\ n \in Nat /\ i \in Nat
  BY <1>1 DEF n
<1>6. k # i
  BY <1>2, <1>5
<1>7. k - 1 \in Nat /\ k - 1 \in i..n /\ k \in 1..n /\ ~(k <= k - 1) /\ k - 1 \in 0..n /\ k \in 0..n
  BY <1>5, <1>6
<1>8. off[i] <= off[k - 1]
  BY <1>4, <1>7
<1>9. off[k] = off[k - 1] + Len(Repair(ms, k))
  BY <1>7 DEF Layout, n
<1>10. Len(Repair(ms, k)) \in Nat
  BY <1>7, RepairIs DEF n
<1>11. off[i] \in Nat /\ off[k] \in Nat /\ off[k - 1] \in Nat
  BY <1>2, <1>7 DEF n
<1> QED BY <1>5, <1>8, <1>9, <1>10, <1>11

\* Whose place of the view p is.
Found(ms, off, p) ==
  \E i \in 1..Len(ms) : \E k \in 1..Len(Repair(ms, i)) :
     p = off[i - 1] + k /\ View(ms)[p] = Repair(ms, i)[k]

\* Each place of the view is one of a message's.
LEMMA Located ==
  ASSUME NEW ms, Paired(ms), NEW off, Layout(ms, off), NEW p \in 1..Len(View(ms))
  PROVE  Found(ms, off, p)
<1>1. Len(ms) \in Nat
  BY DEF Paired
<1>2. \A k \in 0..Len(ms) : off[k] \in Nat
  BY DEF Layout
<1> DEFINE Beyond == {i \in Nat : i \in 0..Len(ms) /\ p <= off[i]}
<1>3. Beyond # {} /\ Beyond \in SUBSET Nat
  <2>1. off[Len(ms)] = Len(View(ms)) /\ Len(ms) \in 0..Len(ms)
    BY <1>1 DEF Layout
  <2>2. p <= Len(View(ms))
    BY <1>2, <2>1
  <2> QED BY <1>1, <2>1, <2>2
<1>4. PICK i \in Beyond : \A l \in Beyond : i <= l
  BY <1>3, Least
<1>5. i \in Nat /\ i \in 0..Len(ms) /\ p <= off[i]
  OBVIOUS
<1> HIDE DEF Beyond
<1>6. p \in Nat /\ p >= 1
  <2>1. off[Len(ms)] = Len(View(ms)) /\ off[Len(ms)] \in Nat
    BY <1>1, <1>2 DEF Layout
  <2> QED BY <2>1
<1>7. i # 0
  BY <1>5, <1>6 DEF Layout
<1>8. i \in 1..Len(ms) /\ i - 1 \in 0..Len(ms) /\ i - 1 \in Nat /\ ~(i <= i - 1)
  BY <1>1, <1>5, <1>7
<1>9. ~(p <= off[i - 1])
  <2>1. i - 1 \notin Beyond
    BY <1>4, <1>8
  <2> QED BY <1>8, <2>1 DEF Beyond
<1>10. off[i] = off[i - 1] + Len(Repair(ms, i)) /\ Len(Repair(ms, i)) \in Nat
  BY <1>8, RepairIs DEF Layout
<1>11. off[i - 1] \in Nat /\ off[i] \in Nat
  BY <1>2, <1>5, <1>8
<1>12. p - off[i - 1] \in 1..Len(Repair(ms, i)) /\ p = off[i - 1] + (p - off[i - 1])
  BY <1>5, <1>6, <1>9, <1>10, <1>11
<1>13. View(ms)[off[i - 1] + (p - off[i - 1])] = Repair(ms, i)[p - off[i - 1]]
  BY <1>8, <1>12 DEF Layout
<1> QED BY <1>8, <1>12, <1>13 DEF Found

\* What stands at the places of the view.
LEMMA EntryIs ==
  ASSUME NEW ms, Paired(ms), NEW off, Layout(ms, off), NEW i \in 1..Len(ms), NEW k \in 1..Len(Repair(ms, i))
  PROVE  /\ off[i - 1] + k \in 1..Len(View(ms))
         /\ ~Dropped(ms, i)
         /\ k = 1 => View(ms)[off[i - 1] + k] = ms[i]
         /\ k # 1 => /\ View(ms)[off[i - 1] + k].call = Repair(ms, i)[k].call
                     /\ View(ms)[off[i - 1] + k].call \in Unanswered(ms, i)
                     /\ View(ms)[off[i - 1] + k].call # NoCall /\ ms[i].kind # "tool"
<1> DEFINE r == Repair(ms, i)
<1>1. /\ Len(r) \in Nat
      /\ Dropped(ms, i) <=> Len(r) = 0
      /\ ~Dropped(ms, i) => r[1] = ms[i]
      /\ \A l \in 2..Len(r) : r[l].call \in Unanswered(ms, i)
  BY RepairIs
<1>2. off[i - 1] + k \in 1..Len(View(ms)) /\ View(ms)[off[i - 1] + k] = r[k]
  BY DEF Layout
<1>3. k \in 1..Len(r)
  OBVIOUS
<1> HIDE DEF r
<1>4. ~Dropped(ms, i)
  BY <1>1, <1>3
<1>5. k # 1 => k \in 2..Len(r)
  BY <1>1, <1>3
<1>6. ms[i] \in Message
  BY DEF Paired
<1>7. ASSUME k # 1 PROVE r[k].call # NoCall /\ ms[i].kind # "tool"
  <2>1. r[k].call \in ms[i].calls
    BY <1>1, <1>5, <1>7 DEF Unanswered
  <2>2. ms[i].calls \subseteq CallIds
    BY <1>6 DEF Message
  <2>3. CallIds \subseteq Nat \X Nat
    <3>1. 1..MaxMessages \subseteq Nat /\ 1..MaxCalls \subseteq Nat
      BY ConversationAssumption
    <3> QED BY <3>1 DEF CallIds
  <2>4. r[k].call # NoCall
    BY <2>1, <2>2, <2>3, ConversationAssumption
  <2>5. ms[i].kind = "tool" => ms[i].calls = {}
    BY DEF Paired
  <2> QED BY <2>1, <2>4, <2>5
<1>8. k = 1 => View(ms)[off[i - 1] + k] = ms[i]
  BY <1>1, <1>2, <1>4
<1>9. ASSUME k # 1
      PROVE  /\ View(ms)[off[i - 1] + k].call = r[k].call
             /\ View(ms)[off[i - 1] + k].call \in Unanswered(ms, i)
             /\ View(ms)[off[i - 1] + k].call # NoCall /\ ms[i].kind # "tool"
  BY <1>1, <1>2, <1>5, <1>7, <1>9
<1> QED BY <1>2, <1>4, <1>8, <1>9 DEF r

\* The results behind a place of the view.
Behind(v, p) == {q \in p + 1..Len(v) : \A l \in p + 1..q : v[l].call # NoCall}

\* As they come: made up for a message.
MadeUp(ms, off, i, q) ==
  \E k \in 2..Len(Repair(ms, i)) : q = off[i - 1] + k /\ View(ms)[q].call = Repair(ms, i)[k].call

\* And from the list.
Listed(ms, off, i, q) ==
  \E j \in i + 1..Len(ms) : /\ q = off[j - 1] + 1 /\ View(ms)[q] = ms[j] /\ ms[j].kind = "tool"
                            /\ \A l \in i + 1..j : ms[l].kind = "tool"

\* Places are numbers.
LEMMA OffsetsAre ==
  ASSUME NEW ms, Paired(ms), NEW off, Layout(ms, off)
  PROVE  /\ Len(ms) \in Nat /\ \A i \in 0..Len(ms) : off[i] \in Nat
         /\ \A i \in 1..Len(ms) : /\ i - 1 \in 0..Len(ms) /\ i \in 0..Len(ms)
                                  /\ off[i] = off[i - 1] + Len(Repair(ms, i)) /\ Len(Repair(ms, i)) \in Nat
                                  /\ ms[i].kind # "tool" => Len(Repair(ms, i)) >= 1
<1>1. Len(ms) \in Nat
  BY DEF Paired
<1>2. \A i \in 0..Len(ms) : off[i] \in Nat
  BY DEF Layout
<1>3. ASSUME NEW i \in 1..Len(ms)
      PROVE  /\ i - 1 \in 0..Len(ms) /\ i \in 0..Len(ms)
             /\ off[i] = off[i - 1] + Len(Repair(ms, i)) /\ Len(Repair(ms, i)) \in Nat
             /\ ms[i].kind # "tool" => Len(Repair(ms, i)) >= 1
  <2>1. i - 1 \in 0..Len(ms) /\ i \in 0..Len(ms)
    BY <1>1
  <2>2. Len(Repair(ms, i)) \in Nat /\ (Dropped(ms, i) <=> Len(Repair(ms, i)) = 0)
    BY RepairIs
  <2>3. ms[i].kind # "tool" => Len(Repair(ms, i)) # 0
    BY <2>2 DEF Dropped
  <2>4. off[i] = off[i - 1] + Len(Repair(ms, i))
    BY DEF Layout
  <2> QED BY <2>1, <2>2, <2>3, <2>4
<1> QED BY <1>1, <1>2, <1>3

\* Arithmetic of places.
LEMMA Places3 ==
  ASSUME NEW a \in Nat, NEW b \in Nat, NEW x \in Nat, NEW q \in Nat
  PROVE  /\ ~(a + 1 + 1 <= q /\ q <= b /\ b <= a)
         /\ a + 1 <= b /\ b <= x /\ x + 1 <= q => x + 1 \in a + 1 + 1..q
         /\ a + 1 <= b /\ b <= x /\ x + 1 <= q => a + 1 <= q
OBVIOUS

\* Of one or the other kind are the results behind a message, and they answer its calls.
LEMMA BehindIs ==
  ASSUME NEW ms, Paired(ms), NEW off, Layout(ms, off), NEW i \in 1..Len(ms), ms[i].kind # "tool",
         NEW q \in Behind(View(ms), off[i - 1] + 1)
  PROVE  /\ MadeUp(ms, off, i, q) \/ Listed(ms, off, i, q)
         /\ View(ms)[q].call \in ms[i].calls
<1> DEFINE v == View(ms)
           n == Len(ms)
           p == off[i - 1] + 1
<1>0. /\ n \in Nat /\ \A k \in 0..n : off[k] \in Nat
      /\ \A k \in 1..n : /\ k - 1 \in 0..n /\ k \in 0..n
                         /\ off[k] = off[k - 1] + Len(Repair(ms, k)) /\ Len(Repair(ms, k)) \in Nat
                         /\ ms[k].kind # "tool" => Len(Repair(ms, k)) >= 1
  BY OffsetsAre
<1>1. q \in p + 1..Len(v) /\ \A l \in p + 1..q : v[l].call # NoCall
  BY DEF Behind
<1>2. off[n] = Len(v) /\ Len(v) \in Nat
  BY <1>0 DEF Layout
<1>3. off[i - 1] \in Nat /\ p \in Nat /\ q \in Nat /\ p + 1 <= q /\ q \in 1..Len(v)
  <2>1. off[i - 1] \in Nat
    BY <1>0
  <2> QED BY <1>1, <1>2, <2>1
<1>4. PICK j \in 1..n : \E k \in 1..Len(Repair(ms, j)) : q = off[j - 1] + k /\ v[q] = Repair(ms, j)[k]
  <2>1. Found(ms, off, q)
    BY <1>3, Located
  <2> QED BY <2>1 DEF Found
<1>5. PICK k \in 1..Len(Repair(ms, j)) : q = off[j - 1] + k
  BY <1>4
<1>6. off[j - 1] \in Nat /\ k \in Nat /\ k >= 1 /\ off[j] \in Nat /\ k <= Len(Repair(ms, j)) /\ off[j - 1] + k <= off[j]
  <2>1. off[j - 1] \in Nat /\ off[j] \in Nat /\ off[j] = off[j - 1] + Len(Repair(ms, j)) /\ Len(Repair(ms, j)) \in Nat
    BY <1>0
  <2> QED BY <2>1
<1>6a. q <= off[j] /\ off[j - 1] + 1 <= q
  BY <1>5, <1>6
<1>7. j \in Nat /\ i \in Nat /\ i \in 1..n
  BY <1>0
<1>8. j >= i
  <2>1. SUFFICES ASSUME j < i PROVE FALSE
    BY <1>7
  <2>2. j <= i - 1 /\ j \in 0..n /\ i - 1 \in 0..n
    BY <1>0, <1>7, <2>1
  <2>3. off[j] <= off[i - 1]
    BY <2>2, LayoutRises
  <2>4. off[j] \in Nat /\ off[i - 1] \in Nat /\ q \in Nat /\ off[i - 1] + 1 + 1 <= q /\ q <= off[j]
    BY <1>3, <1>6, <1>6a
  <2> QED BY <2>3, <2>4, Places3
<1>9. CASE j = i
  <2>1. k # 1
    BY <1>3, <1>5, <1>9
  <2>2. v[q].call = Repair(ms, i)[k].call /\ v[q].call \in Unanswered(ms, i)
    BY <1>5, <1>9, <2>1, EntryIs
  <2>3. k \in 2..Len(Repair(ms, i))
    BY <1>0, <1>9, <2>1
  <2> QED BY <1>5, <1>9, <2>2, <2>3 DEF MadeUp, Unanswered
<1>10. CASE j # i
  <2>0. j > i
    BY <1>7, <1>8, <1>10
  <2>1. ASSUME NEW l \in i + 1..j PROVE ms[l].kind = "tool"
    <3>1. SUFFICES ASSUME ms[l].kind # "tool" PROVE FALSE
      OBVIOUS
    <3>2. l \in 1..n /\ l - 1 \in 0..n /\ i \in 0..n /\ j - 1 \in 0..n /\ l \in Nat /\ i <= l - 1 /\ i + 1 <= l /\ l <= j
      BY SMTT(30), <1>0, <1>7
    <3>3. Len(Repair(ms, l)) \in Nat /\ Len(Repair(ms, l)) >= 1 /\ off[l - 1] \in Nat /\ off[l] \in Nat
          /\ off[l] = off[l - 1] + Len(Repair(ms, l))
      BY <1>0, <3>1, <3>2
    <3>4. v[off[l - 1] + 1] = ms[l]
      <4>1. 1 \in 1..Len(Repair(ms, l))
        BY <3>3
      <4> QED BY <3>2, <4>1, EntryIs
    <3>5. off[i] <= off[l - 1]
      BY <3>2, LayoutRises
    <3>6. off[i] \in Nat /\ off[i - 1] + 1 <= off[i]
      <4>1. off[i] = off[i - 1] + Len(Repair(ms, i)) /\ Len(Repair(ms, i)) \in Nat /\ Len(Repair(ms, i)) >= 1 /\ off[i] \in Nat
        BY <1>0
      <4> QED BY <1>3, <4>1
    <3>7. off[l - 1] + 1 <= q
      <4>1. CASE l = j
        BY <1>5, <1>6, <4>1
      <4>2. CASE l # j
        <5>1. l <= j - 1 /\ l \in 0..n
          BY <1>7, <3>2, <4>2
        <5>2. off[l] <= off[j - 1]
          BY <3>2, <5>1, LayoutRises
        <5>3. off[j - 1] \in Nat /\ q \in Nat /\ off[j - 1] + 1 <= q
          BY <1>3, <1>6, <1>6a
        <5>4. off[l - 1] + 1 <= off[l]
          BY <3>3
        <5> QED BY <3>3, <5>2, <5>3, <5>4, Places3
      <4> QED BY <4>1, <4>2
    <3>8. off[l - 1] + 1 \in p + 1..q
      <4>1. off[i - 1] \in Nat /\ off[i] \in Nat /\ off[l - 1] \in Nat /\ q \in Nat
        BY <1>3, <3>3, <3>6
      <4> QED BY <3>5, <3>6, <3>7, <4>1, Places3
    <3>9. ms[l].call # NoCall
      BY <1>1, <3>4, <3>8
    <3> QED BY <3>1, <3>2, <3>9 DEF Paired
  <2>2. j \in i + 1..j /\ j \in i + 1..n
    BY <1>7, <1>0, <2>0
  <2>3. ms[j].kind = "tool"
    BY <2>1, <2>2
  <2>4. k = 1 /\ ~Dropped(ms, j) /\ v[q] = ms[j]
    <3>1. /\ ~Dropped(ms, j) /\ (k = 1 => v[off[j - 1] + k] = ms[j])
          /\ k # 1 => ms[j].kind # "tool"
      BY EntryIs
    <3> QED BY <1>5, <2>3, <3>1
  <2>5. PICK c \in 1..n : c < j /\ ms[j].call \in ms[c].calls /\ \A l \in c + 1..j : ms[l].kind = "tool"
    BY <2>3, <2>4 DEF Dropped, Paired
  <2>6. c = i
    <3>1. ~(c < i)
      <4>1. c < i => i \in c + 1..j
        BY <1>7, <2>0
      <4> QED BY <2>5, <4>1
    <3>2. ~(c > i)
      <4>1. c > i => c \in i + 1..j
        BY <1>7, <2>5
      <4>2. ms[c].kind = "tool" => ms[c].calls = {}
        BY DEF Paired
      <4> QED BY <2>1, <2>5, <4>1, <4>2
    <3> QED BY <1>7, <3>1, <3>2
  <2>7. Listed(ms, off, i, q)
    BY <1>5, <2>1, <2>2, <2>3, <2>4 DEF Listed
  <2> QED BY <2>4, <2>5, <2>6, <2>7
<1> QED BY <1>9, <1>10

\* What comes after its beginning ends after it.
LEMMA EndsAfter ==
  ASSUME NEW a \in Nat, NEW r \in Nat, r >= 1, NEW b, b = a + r
  PROVE  a + 1 <= b
OBVIOUS

\* What comes between two beginnings.
LEMMA Between ==
  ASSUME NEW a \in Nat, NEW b \in Nat, NEW x \in Nat, NEW q \in Nat, NEW l \in Nat,
         q = b + 1, l = x + 1, a + 1 + 1 <= l, l <= q
  PROVE  ~(x <= a) /\ x <= b
OBVIOUS

\* Every call has its result.
LEMMA EachAnswered ==
  ASSUME NEW ms, Paired(ms), NEW off, Layout(ms, off), NEW i \in 1..Len(ms), ms[i].kind # "tool",
         NEW c \in ms[i].calls
  PROVE  \E q \in Behind(View(ms), off[i - 1] + 1) : View(ms)[q].call = c
<1> DEFINE v == View(ms)
           n == Len(ms)
           p == off[i - 1] + 1
<1>0. /\ n \in Nat /\ \A k \in 0..n : off[k] \in Nat
      /\ \A k \in 1..n : /\ k - 1 \in 0..n /\ k \in 0..n
                         /\ off[k] = off[k - 1] + Len(Repair(ms, k)) /\ Len(Repair(ms, k)) \in Nat
                         /\ ms[k].kind # "tool" => Len(Repair(ms, k)) >= 1
  BY OffsetsAre
<1>1. ~Dropped(ms, i)
  BY DEF Dropped
<1>2. off[n] = Len(v) /\ Len(v) \in Nat
  BY <1>0 DEF Layout
<1>3. off[i - 1] \in Nat /\ Len(Repair(ms, i)) \in Nat /\ i \in Nat
  BY <1>0
<1>4. CASE c \in Unanswered(ms, i)
  <2>1. PICK k \in 2..Len(Repair(ms, i)) : Repair(ms, i)[k].call = c
    BY <1>1, <1>4, RepairIs
  <2> DEFINE q == off[i - 1] + k
  <2>2. k \in 1..Len(Repair(ms, i)) /\ k # 1 /\ k \in Nat /\ k >= 2
    BY <1>3
  <2>3. q \in 1..Len(v) /\ v[q].call = c
    BY <2>1, <2>2, EntryIs
  <2>4. ASSUME NEW l \in p + 1..q PROVE v[l].call # NoCall
    <3> DEFINE x == l - off[i - 1]
    <3>1. x \in 1..Len(Repair(ms, i)) /\ x # 1 /\ off[i - 1] + x = l
      BY SMTT(30), <1>3, <2>2
    <3> HIDE DEF x
    <3> QED BY <3>1, EntryIs
  <2>5. q \in p + 1..Len(v)
    BY <1>2, <1>3, <2>2, <2>3
  <2> HIDE DEF q, p
  <2> QED BY <2>3, <2>4, <2>5 DEF Behind, p
<1>5. CASE c \notin Unanswered(ms, i)
  <2>1. c \in Answered(ms, i)
    BY <1>5 DEF Unanswered
  <2>2. PICK j \in {k \in i + 1..Len(ms) : \A l \in i + 1..k : ms[l].kind = "tool"} : c = ms[j].call
    BY <2>1 DEF Answered
  <2>3. j \in i + 1..n /\ \A l \in i + 1..j : ms[l].kind = "tool"
    OBVIOUS
  <2>4. j \in 1..n /\ j \in i + 1..j /\ j - 1 \in 0..n /\ i \in 0..n /\ i <= j - 1 /\ j \in Nat
    BY <1>0, <1>3, <2>3
  <2>5. ms[j].kind = "tool" /\ c \in AllCalls(ms)
    <3>1. i \in DOMAIN ms
      BY DEF Paired
    <3> QED BY <2>3, <2>4, <3>1 DEF AllCalls
  <2>6. ~Dropped(ms, j)
    BY <2>2, <2>5 DEF Dropped
  <2>7. 1 \in 1..Len(Repair(ms, j)) /\ Len(Repair(ms, j)) \in Nat
    <3>1. Len(Repair(ms, j)) # 0 /\ Len(Repair(ms, j)) \in Nat
      BY <2>4, <2>6, RepairIs
    <3> QED BY <3>1
  <2> DEFINE q == off[j - 1] + 1
  <2>8. q \in 1..Len(v) /\ v[q] = ms[j]
    BY <2>4, <2>7, EntryIs
  <2>9. off[i] <= off[j - 1] /\ off[i - 1] + 1 <= off[i] /\ off[j - 1] \in Nat /\ off[i] \in Nat
    <3>1. off[i] <= off[j - 1]
      BY <2>4, LayoutRises
    <3>2. off[i] = off[i - 1] + Len(Repair(ms, i)) /\ Len(Repair(ms, i)) >= 1 /\ off[i] \in Nat
      BY <1>0
    <3>3. off[i - 1] + 1 <= off[i]
      BY <1>3, <3>2, EndsAfter
    <3>4. off[j - 1] \in Nat
      BY <1>0, <2>4
    <3> QED BY <3>1, <3>2, <3>3, <3>4
  <2>10. q \in p + 1..Len(v) /\ q \in Nat
    BY SMTT(30), <1>2, <1>3, <2>8, <2>9
  <2>11. ASSUME NEW l \in p + 1..q PROVE v[l].call # NoCall
    <3>1. l \in 1..Len(v) /\ p + 1 <= l /\ l <= q /\ l \in Nat
      BY SMTT(30), <1>2, <1>3, <2>8, <2>10
    <3>2. PICK x \in 1..n : \E k \in 1..Len(Repair(ms, x)) : l = off[x - 1] + k /\ v[l] = Repair(ms, x)[k]
      <4>1. Found(ms, off, l)
        BY <3>1, Located
      <4> QED BY <4>1 DEF Found
    <3>3. PICK k \in 1..Len(Repair(ms, x)) : l = off[x - 1] + k
      BY <3>2
    <3>4. CASE k # 1
      BY <3>3, <3>4, EntryIs
    <3>5. CASE k = 1
      <4>1. v[l] = ms[x] /\ l = off[x - 1] + 1
        BY <3>3, <3>5, EntryIs
      <4>2. x \in Nat /\ x - 1 \in 0..n /\ x \in 0..n /\ off[x - 1] \in Nat /\ off[x] \in Nat
            /\ off[x] = off[x - 1] + Len(Repair(ms, x)) /\ Len(Repair(ms, x)) \in Nat
        BY <1>0
      <4>3. ~(off[x - 1] <= off[i - 1]) /\ off[x - 1] <= off[j - 1]
        <5> DEFINE a == off[i - 1]
                   b == off[j - 1]
                   y == off[x - 1]
        <5>1. q = b + 1 /\ l = y + 1 /\ a + 1 + 1 <= l /\ l <= q
          BY <3>1, <4>1
        <5>2. a \in Nat /\ b \in Nat /\ y \in Nat /\ q \in Nat /\ l \in Nat
          BY <1>3, <2>9, <2>10, <3>1, <4>2
        <5>3. SUFFICES ~(y <= a) /\ y <= b
          OBVIOUS
        <5> HIDE DEF q, a, b, y
        <5> QED BY <5>1, <5>2, Between
      <4>4. ~(x <= i)
        <5>1. SUFFICES ASSUME x <= i PROVE FALSE
          OBVIOUS
        <5>2. x - 1 <= i - 1 /\ i - 1 \in 0..n
          <6>1. i \in 1..n /\ i - 1 \in 0..n
            BY <1>0, <1>3
          <6>2. i \in Nat /\ x \in Nat
            BY <4>2, <6>1
          <6> HIDE DEF n
          <6> QED BY <5>1, <6>1, <6>2
        <5>3. off[x - 1] <= off[i - 1]
          BY <4>2, <5>2, LayoutRises
        <5> QED BY <4>3, <5>3
      <4>5. ms[x].kind = "tool"
        <5>1. CASE x <= j
          <6>1. x \in i + 1..j
            BY <1>3, <2>4, <4>2, <4>4, <5>1
          <6> QED BY <2>3, <6>1
        <5>2. CASE ~(x <= j)
          <6>1. j <= x - 1 /\ j \in 0..n
            BY <2>4, <4>2, <5>2
          <6>2. off[j] <= off[x - 1]
            BY <4>2, <6>1, LayoutRises
          <6>3. off[j] = off[j - 1] + Len(Repair(ms, j)) /\ off[j] \in Nat /\ Len(Repair(ms, j)) >= 1
            BY <1>0, <2>4, <2>7
          <6>4. off[j - 1] + 1 <= off[j]
            BY <2>7, <2>9, <6>3, EndsAfter
          <6>5. off[j - 1] \in Nat /\ off[j] \in Nat /\ off[x - 1] \in Nat /\ off[x - 1] <= off[j - 1]
            BY SMTT(30), <2>9, <4>2, <4>3, <6>3
          <6> QED BY <6>2, <6>4, <6>5
        <5> QED BY <5>1, <5>2
      <4> QED BY <4>1, <4>5 DEF Paired
    <3> QED BY <3>4, <3>5
  <2> HIDE DEF q, p
  <2> QED BY <2>2, <2>8, <2>10, <2>11 DEF Behind, p
<1> QED BY <1>4, <1>5

\* And only one.
LEMMA OnceAnswered ==
  ASSUME NEW ms, Paired(ms), NEW off, Layout(ms, off), NEW i \in 1..Len(ms), ms[i].kind # "tool",
         NEW q \in Behind(View(ms), off[i - 1] + 1), NEW r \in Behind(View(ms), off[i - 1] + 1),
         View(ms)[q].call = View(ms)[r].call
  PROVE  q = r
<1>1. ASSUME NEW x \in Behind(View(ms), off[i - 1] + 1)
      PROVE  MadeUp(ms, off, i, x) \/ Listed(ms, off, i, x)
  BY <1>1, BehindIs
<1>2. ASSUME NEW x, MadeUp(ms, off, i, x) PROVE View(ms)[x].call \in Unanswered(ms, i)
  <2>1. PICK k \in 2..Len(Repair(ms, i)) : x = off[i - 1] + k /\ View(ms)[x].call = Repair(ms, i)[k].call
    BY <1>2 DEF MadeUp
  <2>2. Repair(ms, i)[k].call \in Unanswered(ms, i)
    BY RepairIs
  <2> QED BY <2>1, <2>2
<1>3. ASSUME NEW x, Listed(ms, off, i, x) PROVE View(ms)[x].call \in Answered(ms, i)
  <2>1. PICK j \in i + 1..Len(ms) : /\ View(ms)[x] = ms[j]
                                    /\ \A l \in i + 1..j : ms[l].kind = "tool"
    BY <1>3 DEF Listed
  <2>2. j \in {k \in i + 1..Len(ms) : \A l \in i + 1..k : ms[l].kind = "tool"}
    BY <2>1
  <2> QED BY <2>1, <2>2 DEF Answered
<1>4. CASE MadeUp(ms, off, i, q) /\ MadeUp(ms, off, i, r)
  <2>1. PICK k \in 2..Len(Repair(ms, i)) : q = off[i - 1] + k /\ View(ms)[q].call = Repair(ms, i)[k].call
    BY <1>4 DEF MadeUp
  <2>2. PICK l \in 2..Len(Repair(ms, i)) : r = off[i - 1] + l /\ View(ms)[r].call = Repair(ms, i)[l].call
    BY <1>4 DEF MadeUp
  <2>3. k = l
    <3>1. Repair(ms, i)[k].call = Repair(ms, i)[l].call
      BY <2>1, <2>2
    <3> QED BY <3>1, RepairIs
  <2> QED BY <2>1, <2>2, <2>3
<1>5. CASE Listed(ms, off, i, q) /\ Listed(ms, off, i, r)
  <2>1. PICK j \in i + 1..Len(ms) : q = off[j - 1] + 1 /\ View(ms)[q] = ms[j] /\ ms[j].kind = "tool"
    BY <1>5 DEF Listed
  <2>2. PICK l \in i + 1..Len(ms) : r = off[l - 1] + 1 /\ View(ms)[r] = ms[l] /\ ms[l].kind = "tool"
    BY <1>5 DEF Listed
  <2>3. j \in 1..Len(ms) /\ l \in 1..Len(ms)
    BY OffsetsAre
  <2>4. j = l
    <3>1. ms[j].kind = "tool" /\ ms[l].kind = "tool" /\ ms[j].call = ms[l].call
      BY <2>1, <2>2
    <3>2. \A x, y \in 1..Len(ms) : ms[x].kind = "tool" /\ ms[y].kind = "tool" /\ ms[x].call = ms[y].call => x = y
      BY DEF Paired
    <3> QED BY <2>3, <3>1, <3>2
  <2> QED BY <2>1, <2>2, <2>4
<1>6. Answered(ms, i) \cap Unanswered(ms, i) = {}
  BY DEF Unanswered
<1> QED BY <1>1, <1>2, <1>3, <1>4, <1>5, <1>6

\* The view of a list whose results are behind their calls is well formed.
LEMMA PairedIsWellFormed ==
  ASSUME NEW ms, Paired(ms) PROVE WellFormed(View(ms))
<1> DEFINE v == View(ms)
           n == Len(ms)
<1>0. PICK off : Layout(ms, off)
  BY LayoutExists
<1>00. v \in Seq(Message \cup {Patch(c) : c \in CallIds})
  BY LayoutExists
<1>1. /\ n \in Nat /\ \A k \in 0..n : off[k] \in Nat
      /\ \A k \in 1..n : /\ k - 1 \in 0..n /\ k \in 0..n
                         /\ off[k] = off[k - 1] + Len(Repair(ms, k)) /\ Len(Repair(ms, k)) \in Nat
                         /\ ms[k].kind # "tool" => Len(Repair(ms, k)) >= 1
  BY <1>0, OffsetsAre
<1>2. DOMAIN v = 1..Len(v) /\ Len(v) \in Nat
  BY <1>00
<1> HIDE DEF v
<1>3. ASSUME NEW p \in 1..Len(v), v[p].call = NoCall
      PROVE  \E i \in 1..n : p = off[i - 1] + 1 /\ v[p] = ms[i] /\ ms[i].kind # "tool"
  <2>0. Found(ms, off, p)
    <3>1. p \in 1..Len(View(ms))
      BY DEF v
    <3> QED BY <1>0, <3>1, Located
  <2>1. PICK i \in 1..n : \E k \in 1..Len(Repair(ms, i)) : p = off[i - 1] + k /\ v[p] = Repair(ms, i)[k]
    BY <2>0 DEF Found, v
  <2>2. PICK k \in 1..Len(Repair(ms, i)) : p = off[i - 1] + k
    BY <2>1
  <2>3. k = 1
    <3>1. k # 1 => v[off[i - 1] + k].call # NoCall
      BY <1>0, EntryIs DEF v
    <3> QED BY <1>3, <2>2, <3>1
  <2>4. v[p] = ms[i]
    BY <1>0, <2>2, <2>3, EntryIs DEF v
  <2> QED BY <1>3, <2>2, <2>3, <2>4 DEF Paired
<1>4. ASSUME NEW p \in 1..Len(v), v[p].call = NoCall
      PROVE  /\ {v[q].call : q \in Behind(v, p)} = v[p].calls
             /\ Cardinality(Behind(v, p)) = Cardinality(v[p].calls)
  <2>1. PICK i \in 1..n : p = off[i - 1] + 1 /\ v[p] = ms[i] /\ ms[i].kind # "tool"
    BY <1>3, <1>4
  <2> DEFINE R == Behind(v, p)
             C == v[p].calls
  <2>2. \A q \in R : v[q].call \in C
    BY <1>0, <2>1, BehindIs DEF v
  <2>3. \A c \in C : \E q \in R : v[q].call = c
    BY <1>0, <2>1, EachAnswered DEF v
  <2>4. \A q, r \in R : v[q].call = v[r].call => q = r
    BY <1>0, <2>1, OnceAnswered DEF v
  <2>5. IsFiniteSet(R)
    <3>1. IsFiniteSet(p + 1..Len(v))
      <4>1. p + 1 \in Int /\ Len(v) \in Int
        BY <1>2
      <4> QED BY <4>1, FS_Interval
    <3>2. R \in SUBSET (p + 1..Len(v))
      BY DEF Behind
    <3> QED BY <3>1, <3>2, FS_Subset
  <2> HIDE DEF R, C
  <2>6. {v[q].call : q \in R} = C
    BY <2>2, <2>3
  <2> DEFINE f == [q \in R |-> v[q].call]
  <2>7. f \in Bijection(R, C)
    <3>1. f \in [R -> C]
      BY <2>2
    <3>2. \A q, r \in R : f[q] = f[r] => q = r
      BY <2>4
    <3>3. \A c \in C : \E q \in R : f[q] = c
      BY <2>3
    <3> QED BY <3>1, <3>2, <3>3 DEF Bijection, Injection, Surjection, IsInjective
  <2>8. ExistsBijection(R, C)
    BY <2>7 DEF ExistsBijection
  <2>9. Cardinality(C) = Cardinality(R)
    BY <2>5, <2>8, FS_Bijection
  <2> QED BY <2>6, <2>9 DEF R, C
<1>5. ASSUME v # <<>> PROVE v[1].call = NoCall
  <2>1. 1 \in 1..Len(v)
    <3>1. Len(v) # 0
      BY <1>00, <1>5 DEF v
    <3> QED BY <1>2, <3>1
  <2>2. PICK i \in 1..n : \E k \in 1..Len(Repair(ms, i)) : 1 = off[i - 1] + k /\ v[1] = Repair(ms, i)[k]
    <3>1. Found(ms, off, 1)
      BY <1>0, <2>1, Located DEF v
    <3> QED BY <3>1 DEF Found, v
  <2>3. PICK k \in 1..Len(Repair(ms, i)) : 1 = off[i - 1] + k
    BY <2>2
  <2>4. off[i - 1] = 0 /\ k = 1
    <3>1. off[i - 1] \in Nat /\ Len(Repair(ms, i)) \in Nat
      BY <1>1
    <3> QED BY <2>3, <3>1
  <2>5. v[1] = ms[i] /\ ~Dropped(ms, i)
    BY <1>0, <2>3, <2>4, EntryIs DEF v
  <2>6. ms[i].kind # "tool"
    <3>1. SUFFICES ASSUME ms[i].kind = "tool" PROVE FALSE
      OBVIOUS
    <3>2. PICK c \in 1..n : c < i /\ ms[i].call \in ms[c].calls
      BY <2>5, <3>1 DEF Dropped, Paired
    <3>3. ms[c].kind # "tool"
      BY <3>2 DEF Paired
    <3>4. off[c - 1] \in Nat /\ off[c] = off[c - 1] + Len(Repair(ms, c)) /\ Len(Repair(ms, c)) \in Nat /\ Len(Repair(ms, c)) >= 1
      BY <1>1, <3>3
    <3>5. off[c] <= off[i - 1]
      <4>1. c \in 0..n /\ i - 1 \in 0..n /\ c <= i - 1
        BY <1>1, <3>2
      <4> QED BY <1>0, <4>1, LayoutRises
    <3> QED BY <2>4, <3>4, <3>5
  <2> QED BY <2>5, <2>6 DEF Paired
<1>6. WellFormed(v)
  <2>1. ASSUME NEW p \in DOMAIN v, v[p].call = NoCall
        PROVE  LET results == {j \in p + 1..Len(v) : \A l \in p + 1..j : v[l].call # NoCall}
               IN /\ {v[j].call : j \in results} = v[p].calls
                  /\ Cardinality(results) = Cardinality(v[p].calls)
    <3>1. p \in 1..Len(v)
      BY <1>2
    <3> QED BY <1>4, <2>1, <3>1 DEF Behind
  <2> QED BY <1>5, <2>1 DEF WellFormed
<1> QED BY <1>6 DEF v

----------------------------------------------------------------------------
(* The order in which messages were made.                                  *)

\* What is known is messages.
LEMMA KnownIs ==
  ASSUME TypeInv
  PROVE  /\ \A i \in DOMAIN messages : messages[i] \in Known
         /\ \A s \in DOMAIN parts : parts[s] \in Known
         /\ \A a \in Known : /\ a \in Message /\ a.id \in Nat /\ a.seq \in Int
                             /\ a.call # NoCall => a.call \in Nat \X Nat /\ a.call[1] \in Nat /\ a.call[1] >= 1
         /\ made \in Nat
<1>1. \A a \in Known : a \in Message
  BY DEF TypeInv, MemInv, DiskInv, Known
<1>2. ASSUME NEW a \in Message
      PROVE  /\ a.id \in Nat /\ a.seq \in Int
             /\ a.call # NoCall => a.call \in Nat \X Nat /\ a.call[1] \in Nat /\ a.call[1] >= 1
  <2>1. a.id \in 0..MaxMessages /\ a.seq \in Int /\ a.call \in CallIds \cup {NoCall}
    BY DEF Message
  <2>2. \A c \in CallIds : c \in Nat \X Nat /\ c[1] \in Nat /\ c[1] >= 1
    BY LimitsAreNumbers DEF CallIds
  <2> QED BY <2>1, <2>2, LimitsAreNumbers
<1>3. made \in Nat
  BY LimitsAreNumbers DEF TypeInv, CountInv
<1> QED BY <1>1, <1>2, <1>3 DEF Known

\* No message is new.
LEMMA NothingNew ==
  ASSUME KnownInv, Known' \subseteq Known, UNCHANGED made, open' = open \/ open' = <<>> PROVE KnownInv'
<1>1. \A a \in Known' : Formed(a)'
  BY DEF KnownInv, Formed
<1>2. \A a, b \in Known' : Ordered(a, b)
  BY DEF KnownInv
<1>3. OpenInv'
  BY DEF KnownInv, OpenInv
<1> QED BY <1>1, <1>2, <1>3 DEF KnownInv

\* What an added message is, by the calls that wait.
Fits(m) ==
  /\ m.kind # "summary" /\ (m.kind = "tool" <=> m.call # NoCall)
  /\ m.calls # {} => m.kind = "assistant"
  /\ \A c \in m.calls : c[1] = m.id
  /\ \/ m.kind = "tool" /\ open # <<>> /\ m.call = Head(open) /\ open' = Tail(open)
     \/ m.kind # "tool" /\ open = <<>> /\ \A k \in DOMAIN open' : open'[k] = <<made + 1, k>>

\* The message that an addition adds.
LEMMA AddIs ==
  ASSUME TypeInv, NEW kind, NEW calls, NEW call, Add(kind, calls, call), NEW m, Adds(m)
  PROVE  m.kind = kind /\ m.calls = calls /\ m.call = call
<1> DEFINE r == [seq |-> nextSeq, kind |-> kind, id |-> made + 1, calls |-> calls, call |-> call, covers |-> {}]
<1>1. messages' = Append(messages, r) /\ messages' = Append(messages, m)
  BY DEF Add, Adds
<1>2. r.kind = kind /\ r.calls = calls /\ r.call = call
  OBVIOUS
<1> HIDE DEF r
<1>3. Append(messages, r)[Len(messages) + 1] = r /\ Append(messages, m)[Len(messages) + 1] = m
  BY DEF TypeInv, MemInv
<1> QED BY <1>1, <1>2, <1>3

\* A message of the user fits,
LEMMA AddUserFits == ASSUME TypeInv, AddUser PROVE \E m : Adds(m) /\ Fits(m)
<1>1. PICK m : Adds(m)
  BY AddUserAdds
<1>2. Add("user", {}, NoCall) /\ open = <<>> /\ open' = open
  BY DEF AddUser
<1>3. m.kind = "user" /\ m.calls = {} /\ m.call = NoCall
  BY <1>1, <1>2, AddIs
<1>4. DOMAIN open' = {}
  BY <1>2
<1> QED BY <1>1, <1>2, <1>3, <1>4 DEF Fits

\* an answer of the LLM,
LEMMA AddAssistantFits == ASSUME TypeInv, AddAssistant PROVE \E m : Adds(m) /\ Fits(m)
<1>1. PICK m : Adds(m)
  BY AddAssistantAdds
<1>2. PICK n \in 0..MaxCalls : /\ Add("assistant", {made + 1} \X (1..n), NoCall)
                               /\ open' = [k \in 1..n |-> <<made + 1, k>>]
  BY DEF AddAssistant
<1>3. m.kind = "assistant" /\ m.calls = {made + 1} \X (1..n) /\ m.call = NoCall
  BY <1>1, <1>2, AddIs
<1>4. \A c \in m.calls : c[1] = m.id
  BY <1>1, <1>3 DEF Adds
<1>5. \A k \in DOMAIN open' : open'[k] = <<made + 1, k>>
  BY <1>2
<1>6. open = <<>>
  BY DEF AddAssistant
<1> QED BY <1>1, <1>3, <1>4, <1>5, <1>6 DEF Fits

\* a result,
LEMMA AddToolResultFits == ASSUME TypeInv, AddToolResult PROVE \E m : Adds(m) /\ Fits(m)
<1>1. PICK m : Adds(m)
  BY AddToolResultAdds
<1>2. Add("tool", {}, Head(open)) /\ open # <<>> /\ open' = Tail(open)
  BY DEF AddToolResult
<1>3. m.kind = "tool" /\ m.calls = {} /\ m.call = Head(open)
  BY <1>1, <1>2, AddIs
<1>4. Head(open) # NoCall
  <2>1. open \in Seq(CallIds)
    BY DEF TypeInv, MemInv
  <2>2. Head(open) \in CallIds
    BY <1>2, <2>1
  <2>3. \A c \in CallIds : c \in Nat \X Nat
    BY LimitsAreNumbers DEF CallIds
  <2> QED BY <2>2, <2>3, ConversationAssumption
<1> QED BY <1>1, <1>2, <1>3, <1>4 DEF Fits

\* and the marker between two nodes.
LEMMA HandoverFits == ASSUME TypeInv, Handover PROVE \E m : Adds(m) /\ Fits(m)
<1>1. PICK m : Adds(m)
  BY HandoverAdds
<1> DEFINE r == [seq |-> nextSeq, kind |-> "user", id |-> made + 1, calls |-> {}, call |-> NoCall, covers |-> {}]
<1>2. messages' = Append(messages, r) /\ messages' = Append(messages, m) /\ open = <<>> /\ open' = open
  BY <1>1 DEF Handover, Adds
<1>3. r.kind = "user" /\ r.calls = {} /\ r.call = NoCall
  OBVIOUS
<1> HIDE DEF r
<1>4. Append(messages, r)[Len(messages) + 1] = r /\ Append(messages, m)[Len(messages) + 1] = m
  BY DEF TypeInv, MemInv
<1>5. m = r
  BY <1>2, <1>4
<1>6. DOMAIN open' = {}
  BY <1>2
<1> QED BY <1>1, <1>2, <1>3, <1>5, <1>6 DEF Fits

\* With a message that fits, what is known stays so,
LEMMA AddsKnown == ASSUME TypeInv, open' \in Seq(CallIds), KnownInv, NEW m, Adds(m), Fits(m) PROVE KnownInv'
<1>1. Known' \subseteq Known \cup {m}
  <2>1. \A i \in DOMAIN messages' : messages'[i] = m \/ \E j \in DOMAIN messages : messages'[i] = messages[j]
    <3>1. /\ Len(messages) \in Nat /\ DOMAIN messages = 1..Len(messages)
          /\ DOMAIN messages' = 1..Len(messages) + 1
          /\ messages'[Len(messages) + 1] = m
          /\ \A i \in 1..Len(messages) : messages'[i] = messages[i]
      BY AddsMessages
    <3>2. \A i \in 1..Len(messages) + 1 : i \in 1..Len(messages) \/ i = Len(messages) + 1
      BY <3>1
    <3> QED BY <3>1, <3>2
  <2>2. parts' = parts
    BY DEF Adds, diskVars
  <2> QED BY <2>1, <2>2 DEF Known
<1>2. m.id = made + 1 /\ made' = made + 1 /\ made \in Nat /\ m.id \in Nat
  BY KnownIs DEF Adds
<1>3. ASSUME NEW a \in Known
      PROVE  /\ a.id \in Nat /\ a.id <= made
             /\ a.kind = "tool" <=> a.call # NoCall
             /\ a.kind = "tool" => a.call \in Nat \X Nat /\ a.call[1] \in Nat /\ a.call[1] < a.id
  BY KnownIs DEF KnownInv, Formed
<1>4. \A k \in DOMAIN open : open[k] \in Nat \X Nat /\ open[k][1] \in Nat /\ k \in Nat
  <2>1. open \in Seq(CallIds)
    BY DEF TypeInv, MemInv
  <2>2. \A c \in CallIds : c \in Nat \X Nat /\ c[1] \in Nat
    BY LimitsAreNumbers DEF CallIds
  <2> QED BY <2>1, <2>2
<1>5. m.kind = "tool" => /\ 1 \in DOMAIN open /\ m.call = open[1] /\ open[1][1] <= made /\ open' = Tail(open)
                         /\ \A a \in Known : a.call # m.call /\ (m.call[1] < a.id => a.kind = "tool")
  <2>1. SUFFICES ASSUME m.kind = "tool"
                 PROVE  /\ 1 \in DOMAIN open /\ m.call = open[1] /\ open[1][1] <= made /\ open' = Tail(open)
                        /\ \A a \in Known : a.call # m.call /\ (m.call[1] < a.id => a.kind = "tool")
    OBVIOUS
  <2>2. open # <<>> /\ m.call = Head(open) /\ open' = Tail(open) /\ open \in Seq(CallIds)
    BY <2>1 DEF Fits, TypeInv, MemInv
  <2>3. 1 \in DOMAIN open /\ m.call = open[1]
    BY <2>2
  <2> QED BY <2>2, <2>3 DEF KnownInv, OpenInv
<1>6. Formed(m)'
  <2>1. m.id <= made' /\ m.id # 0
    BY <1>2
  <2>2. m.kind = "tool" => m.call[1] < m.id
    BY <1>2, <1>4, <1>5
  <2> QED BY <2>1, <2>2 DEF Fits, Formed
<1>7. \A a \in Known : Formed(a)'
  <2>1. \A a \in Known : a.id <= made'
    BY <1>2, <1>3
  <2> QED BY <2>1 DEF KnownInv, Formed
<1>8. ASSUME NEW a \in Known PROVE Ordered(a, m) /\ Ordered(m, a)
  <2>1. ~(m.id < a.id)
    BY <1>2, <1>3
  <2> QED BY <1>5, <2>1 DEF Ordered
<1>9. Ordered(m, m)
  BY <1>2 DEF Ordered
<1>10. \A a, b \in Known' : Ordered(a, b)
  BY <1>1, <1>8, <1>9 DEF KnownInv
<1>11. OpenInv'
  <2>1. SUFFICES ASSUME NEW k \in DOMAIN open'
                 PROVE  /\ open'[k][1] <= made'
                        /\ \A j \in DOMAIN open' : open'[j] = open'[k] => j = k
                        /\ \A a \in Known \cup {m} :
                             a.call # open'[k] /\ (open'[k][1] < a.id => a.kind = "tool")
    BY <1>1 DEF OpenInv
  <2>2. CASE m.kind = "tool"
    <3>0. open \in Seq(CallIds) /\ open # <<>> /\ open' = Tail(open)
      BY <2>2 DEF Fits, TypeInv, MemInv
    <3>1. \A j \in DOMAIN open' : j \in Nat /\ j + 1 \in DOMAIN open /\ open'[j] = open[j + 1] /\ j + 1 # 1
      BY <3>0
    <3>2. k + 1 \in DOMAIN open /\ open'[k] = open[k + 1] /\ k + 1 # 1 /\ k \in Nat
      BY <3>1
    <3>3. open[k + 1][1] <= made /\ open[k + 1][1] \in Nat
      BY <1>4, <3>2 DEF KnownInv, OpenInv
    <3>4. \A j \in DOMAIN open : open[j] = open[k + 1] => j = k + 1
      BY <3>2 DEF KnownInv, OpenInv
    <3>5. \A a \in Known : a.call # open[k + 1] /\ (open[k + 1][1] < a.id => a.kind = "tool")
      BY <3>2 DEF KnownInv, OpenInv
    <3>6. m.call # open[k + 1]
      BY <1>5, <2>2, <3>2, <3>4
    <3>7. ASSUME NEW j \in DOMAIN open', open'[j] = open'[k] PROVE j = k
      <4>1. j + 1 = k + 1 /\ j \in Nat
        BY <3>1, <3>2, <3>4, <3>7
      <4> QED BY <3>2, <4>1
    <3>8. open'[k][1] <= made'
      BY <1>2, <3>2, <3>3
    <3> QED BY <2>2, <3>2, <3>5, <3>6, <3>7, <3>8
  <2>3. CASE m.kind # "tool"
    <3>1. \A j \in DOMAIN open' : open'[j] = <<made + 1, j>> /\ j \in Nat
      BY <2>3 DEF Fits
    <3>2. open'[k] = <<made + 1, k>> /\ open'[k][1] = made + 1 /\ open'[k] \in Nat \X Nat
      BY <1>2, <3>1
    <3>3. open'[k] # NoCall
      BY <3>2, ConversationAssumption
    <3>4. ASSUME NEW a \in Known PROVE a.call # open'[k] /\ ~(open'[k][1] < a.id)
      <4>1. a.kind = "tool" => a.call[1] # made + 1
        BY <1>2, <1>3
      <4>2. ~(made + 1 < a.id)
        BY <1>2, <1>3
      <4>3. a.kind = "tool" \/ a.call = NoCall
        BY <1>3
      <4> QED BY <3>2, <3>3, <4>1, <4>2, <4>3
    <3>5. m.call # open'[k] /\ ~(open'[k][1] < m.id)
      <4>1. m.call = NoCall
        BY <2>3 DEF Fits
      <4>2. ~(made + 1 < m.id)
        BY <1>2
      <4> QED BY <3>2, <3>3, <4>1, <4>2
    <3>6. \A j \in DOMAIN open' : open'[j] = open'[k] => j = k
      BY <3>1
    <3>7. open'[k][1] <= made'
      BY <1>2, <3>2
    <3> QED BY <3>4, <3>5, <3>6, <3>7
  <2> QED BY <2>2, <2>3
<1>12. \A a \in Known' : Formed(a)'
  BY <1>1, <1>6, <1>7
<1> QED BY <1>10, <1>11, <1>12 DEF KnownInv

\* and in order.
LEMMA AddsRank ==
  ASSUME TypeInv, FilesInv, KnownInv, RankInv, NEW m, Adds(m) PROVE RankInv'
<1>0. /\ Len(messages) \in Nat /\ DOMAIN messages = 1..Len(messages)
      /\ DOMAIN messages' = 1..Len(messages) + 1
      /\ messages'[Len(messages) + 1] = m
      /\ \A i \in 1..Len(messages) : messages'[i] = messages[i]
  BY AddsMessages
<1> DEFINE n == Len(messages)
<1>1. /\ todo = <<>> /\ up /\ parts' = parts /\ m.seq = nextSeq /\ m.id = made + 1 /\ made \in Nat /\ nextSeq \in Nat
  BY KnownIs DEF Adds, diskVars, TypeInv, MemInv
<1> HIDE DEF n
<1>2. ASSUME NEW i \in DOMAIN messages'
      PROVE  \/ i \in 1..n /\ i \in DOMAIN messages /\ messages'[i] = messages[i]
             \/ i = n + 1 /\ messages'[i] = m
  <2>1. n \in Nat /\ DOMAIN messages' = 1..n + 1 /\ messages'[n + 1] = m
    BY <1>0 DEF n
  <2>2. \A l \in 1..n : l \in DOMAIN messages /\ messages'[l] = messages[l]
    BY <1>0 DEF n
  <2>3. i \in 1..n \/ i = n + 1
    BY <2>1
  <2> QED BY <2>1, <2>2, <2>3
<1>3. \A i \in DOMAIN messages : messages[i].id \in Nat /\ messages[i].id <= made /\ messages[i].seq \in Int
  BY KnownIs DEF KnownInv, Formed
<1>4. \A s \in DOMAIN parts : parts[s].id \in Nat /\ parts[s].id <= made /\ s <= nextSeq /\ s \in Int
  <2>1. \A s \in DOMAIN parts : s \in Int
    BY NumbersAre
  <2> QED BY <1>1, <2>1, KnownIs DEF KnownInv, Formed, FilesInv
<1>5. \A s : Stays(s)
  BY <1>1 DEF Stays, Places
<1>6. \A x : ~IsPending(x)
  BY <1>1 DEF IsPending, Places
<1>7. IsPending(m)'
  <2>1. /\ todo'[Len(todo') - 1] = WritePart(m) /\ Len(todo') - 1 \in DOMAIN todo'
    BY AddsTodo
  <2> QED BY <2>1 DEF IsPending, Places, WritePart
<1>8. ASSUME NEW x, IsPending(x)' PROVE x = m
  <2>1. PICK i \in Places("part")' : todo'[i].part = x
    BY <1>8 DEF IsPending
  <2>2. i \in DOMAIN todo' /\ todo'[i].op = "part"
    BY DEF Places
  <2> QED BY <2>1, <2>2, AddsTodo
<1>9. MemoryRank'
  <2>1. SUFFICES ASSUME NEW i \in DOMAIN messages', NEW j \in DOMAIN messages', i < j
                 PROVE  messages'[i].id < messages'[j].id
    BY DEF MemoryRank
  <2>2. i \in 1..n /\ i \in DOMAIN messages /\ messages'[i] = messages[i]
    <3>1. i \in 1..n + 1 /\ j \in 1..n + 1 /\ n \in Nat
      BY <1>0 DEF n
    <3>2. i # n + 1
      BY <2>1, <3>1
    <3> QED BY <1>2, <3>2
  <2>3. CASE j \in DOMAIN messages /\ messages'[j] = messages[j]
    BY <2>1, <2>2, <2>3 DEF RankInv, MemoryRank
  <2>4. CASE messages'[j] = m
    <3>1. messages[i].id \in Nat /\ messages[i].id <= made /\ m.id = made + 1 /\ made \in Nat
      BY <1>1, <1>3, <2>2
    <3> QED BY <2>2, <2>4, <3>1
  <2> QED BY <1>2, <2>3, <2>4
<1>10. FilesRank'
  BY <1>1 DEF RankInv, FilesRank
<1>11. BothRank'
  <2>1. SUFFICES ASSUME NEW s \in DOMAIN parts, NEW j \in DOMAIN messages'
                 PROVE  /\ messages'[j].seq < s => messages'[j].id < parts[s].id
                        /\ messages'[j].seq > s => messages'[j].id > parts[s].id
                        /\ messages'[j].seq = s /\ parts[s].id = 0 => messages'[j].id = 0 \/ IsPending(messages[j])'
    BY <1>1 DEF BothRank
  <2>2. CASE j \in DOMAIN messages /\ messages'[j] = messages[j]
    BY <1>5, <1>6, <2>2 DEF RankInv, BothRank
  <2>3. CASE messages'[j] = m
    <3>1. /\ m.seq = nextSeq /\ m.id = made + 1 /\ made \in Nat /\ nextSeq \in Nat
          /\ parts[s].id \in Nat /\ parts[s].id <= made /\ s <= nextSeq /\ s \in Int
      BY <1>1, <1>4
    <3>2. ~(m.seq < s) /\ m.id > parts[s].id
      BY <3>1
    <3>3. IsPending(messages[j])'
      BY <1>7, <2>3 DEF IsPending
    <3> QED BY <2>3, <3>2, <3>3
  <2> QED BY <1>2, <2>2, <2>3
<1>12. SummaryRank'
  <2>1. SUFFICES ASSUME NEW i \in DOMAIN messages', messages'[i].id = 0, IsPending(messages[i])' PROVE FALSE
    BY DEF SummaryRank
  <2>2. messages'[i] = m
    BY <1>8, <2>1 DEF IsPending
  <2> QED BY <1>1, <2>1, <2>2
<1> QED BY <1>9, <1>10, <1>11, <1>12 DEF RankInv

\* And with a summary.
LEMMA ShortensKnown ==
  ASSUME TypeInv, KnownInv, NEW m, NEW g, NEW r, Shortens(m, g, r) PROVE KnownInv'
<1>1. /\ m \in Message /\ m.kind = "summary" /\ m.calls = {} /\ m.id = 0 /\ m.call = NoCall
      /\ open = <<>> /\ open' = open /\ made' = made /\ parts' = parts
  BY DEF Shortens, diskVars
<1>2. Known' \subseteq Known \cup {m}
  <2>1. /\ DOMAIN messages' = 1..Len(messages') /\ Len(messages') \in Nat /\ messages'[1] = m
        /\ \A i \in 2..Len(messages') : g[i] \in DOMAIN messages /\ messages'[i] = messages[g[i]]
    BY ShortensMessages
  <2>2. \A i \in 1..Len(messages') : i = 1 \/ i \in 2..Len(messages')
    BY <2>1
  <2>3. \A i \in DOMAIN messages' : messages'[i] = m \/ \E j \in DOMAIN messages : messages'[i] = messages[j]
    BY <2>1, <2>2
  <2> QED BY <1>1, <2>3 DEF Known
<1>3. made \in Nat
  BY KnownIs
<1>4. Formed(m)'
  BY <1>1, <1>3 DEF Formed
<1>5. \A a \in Known : Formed(a)'
  BY <1>1 DEF KnownInv, Formed
<1>6. ASSUME NEW a \in Known PROVE Ordered(a, m) /\ Ordered(m, a)
  <2>1. a.kind = "tool" => a.call[1] \in Nat
    BY KnownIs DEF KnownInv, Formed
  <2>2. ~(a.kind = "tool" /\ a.call[1] < m.id)
    BY <1>1, <2>1
  <2> QED BY <1>1, <2>2 DEF Ordered
<1>7. Ordered(m, m)
  BY <1>1 DEF Ordered
<1>8. OpenInv'
  <2>1. DOMAIN open' = {}
    BY <1>1
  <2> QED BY <2>1 DEF OpenInv
<1>9. \A a \in Known' : Formed(a)'
  BY <1>2, <1>4, <1>5
<1>10. \A a, b \in Known' : Ordered(a, b)
  BY <1>2, <1>6, <1>7 DEF KnownInv
<1> QED BY <1>8, <1>9, <1>10 DEF KnownInv

\* A summary does not stay beside the next.
LEMMA KeptIsNoSummary ==
  ASSUME TypeInv, KnownInv, RankInv, NEW m, NEW g, NEW r, Shortens(m, g, r), NEW j \in 2..Len(messages')
  PROVE  messages[g[j]].id # 0
<1>0. /\ messages' \in Seq(Message) /\ DOMAIN messages' = 1..Len(messages') /\ Len(messages') \in Nat
      /\ Len(messages') >= 1 /\ messages'[1] = m /\ DOMAIN messages = 1..Len(messages) /\ Len(messages) \in Nat
      /\ \A i \in 2..Len(messages') : g[i] \in DOMAIN messages /\ messages'[i] = messages[g[i]]
      /\ \A i, k \in 2..Len(messages') : i < k => g[i] < g[k]
  BY ShortensMessages
<1>1. g[j] \in DOMAIN messages /\ g[j] \in Nat /\ g[j] >= 1
  BY <1>0
<1>2. CASE g[j] > 1
  <2>1. 1 \in DOMAIN messages
    BY <1>0, <1>1
  <2>2. messages[1].id < messages[g[j]].id
    BY <1>1, <1>2, <2>1 DEF RankInv, MemoryRank
  <2>3. messages[1].id \in Nat /\ messages[g[j]].id \in Nat
    BY <1>1, <2>1, KnownIs
  <2> QED BY <2>2, <2>3
<1>3. CASE g[j] = 1
  <2>1. j = 2
    <3>1. 2 \in 2..Len(messages') /\ j \in Nat /\ 2 <= j
      BY <1>0
    <3>2. g[2] \in DOMAIN messages
      BY <1>0, <3>1
    <3>3. ~(g[2] < 1)
      BY <1>0, <3>2
    <3> QED BY <1>0, <1>3, <3>1, <3>3
  <2>2. Len(messages') > 1
    BY <1>0, <2>1
  <2>3. messages[g[2]].calls # {} \/ messages[g[2]].kind = "tool"
    BY <1>3, <2>1, <2>2 DEF Shortens
  <2>4. messages[g[2]] \in Known
    BY <1>1, <2>1, KnownIs
  <2> QED BY <2>1, <2>3, <2>4 DEF KnownInv, Formed
<1> QED BY <1>1, <1>2, <1>3

\* No file that a compaction leaves is that of an earlier summary, nor before
\* the new one.
LEMMA ShortensFiles ==
  ASSUME TypeInv, RisingInv, FilesInv, KnownInv, RankInv, NEW m, NEW g, NEW r, Shortens(m, g, r),
         NEW s \in DOMAIN parts, Stays(s)'
  PROVE  parts[s].id > 0 /\ ~(m.seq > s)
<1>0. /\ messages' \in Seq(Message) /\ DOMAIN messages' = 1..Len(messages') /\ Len(messages') \in Nat
      /\ Len(messages') >= 1 /\ messages'[1] = m /\ DOMAIN messages = 1..Len(messages) /\ Len(messages) \in Nat
      /\ \A i \in 2..Len(messages') : g[i] \in DOMAIN messages /\ messages'[i] = messages[g[i]]
      /\ \A i, j \in 2..Len(messages') : i < j => g[i] < g[j]
  BY ShortensMessages
<1>1. /\ todo = <<>> /\ up /\ r \in 2..Len(messages) + 1 /\ nextSeq' \in {nextSeq, nextSeq + 1} /\ nextSeq \in Nat
      /\ \A i \in r..Len(messages) : \E j \in 2..Len(messages') : g[j] = i
      /\ Len(messages') > 1 => m.seq = messages'[2].seq - 1
      /\ Len(messages') = 1 => m.seq = nextSeq /\ nextSeq' = nextSeq + 1
  BY DEF Shortens, TypeInv, MemInv
<1> DEFINE before == IF r > Len(messages) THEN nextSeq' ELSE messages[r].seq
<1>2. s >= before
  <2>1. /\ \A i \in DOMAIN todo' : todo'[i].op = "delete" =>
             i = 1 /\ todo'[i].before = IF r > Len(messages) THEN nextSeq' ELSE messages[r].seq
        /\ todo'[1].op = "delete" /\ 1 \in DOMAIN todo'
    BY ShortensTodo
  <2>2. 1 \in Places("delete")'
    BY <2>1 DEF Places
  <2> QED BY <2>1, <2>2 DEF Stays
<1> HIDE DEF before
<1>3. s \in Int /\ s <= nextSeq /\ parts[s].id \in Nat
  <2>1. s \in Int
    BY NumbersAre
  <2> QED BY <1>1, <2>1, KnownIs DEF FilesInv
<1>4. Stays(s) /\ \A x : ~IsPending(x)
  BY <1>1 DEF Stays, IsPending, Places
<1>5. ASSUME NEW j \in DOMAIN messages, messages[j].id # 0, messages[j].seq <= s PROVE parts[s].id > 0
  <2>1. messages[j].id \in Nat /\ messages[j].seq \in Int
    BY KnownIs
  <2>2. CASE messages[j].seq < s
    <3>1. messages[j].id < parts[s].id
      BY <1>4, <2>2 DEF RankInv, BothRank
    <3> QED BY <1>3, <2>1, <3>1
  <2>3. CASE messages[j].seq = s
    <3>1. parts[s].id # 0
      BY <1>4, <1>5, <2>3 DEF RankInv, BothRank
    <3> QED BY <1>3, <3>1
  <2> QED BY <1>3, <1>5, <2>1, <2>2, <2>3
<1>6. \A j \in 2..Len(messages') : messages[g[j]].id # 0
  BY KeptIsNoSummary
<1>7. CASE Len(messages') = 1
  <2>1. r > Len(messages)
    <3>1. SUFFICES ASSUME ~(r > Len(messages)) PROVE FALSE
      OBVIOUS
    <3>2. r \in r..Len(messages)
      BY <1>0, <1>1, <3>1
    <3>3. PICK j \in 2..Len(messages') : g[j] = r
      BY <1>1, <3>2
    <3> QED BY <1>7, <3>3
  <2>2. s >= nextSeq + 1
    BY <1>1, <1>2, <1>7, <2>1 DEF before
  <2> QED BY <1>1, <1>3, <2>2
<1>8. CASE Len(messages') # 1
  <2>1. Len(messages') > 1 /\ 2 \in 2..Len(messages')
    BY <1>0, <1>8
  <2> DEFINE k == g[2]
             z == messages[k].seq
  <2>2. k \in DOMAIN messages /\ k \in Nat /\ messages'[2] = messages[k] /\ messages[k].id # 0
    BY <1>0, <1>6, <2>1
  <2>3. z \in Int /\ z <= nextSeq
    BY <2>2, KnownIs DEF RisingInv
  <2>4. m.seq = z - 1
    BY <1>1, <2>1, <2>2
  <2>5. z <= before
    <3>1. CASE r > Len(messages)
      <4>1. before = nextSeq'
        BY <3>1 DEF before
      <4> QED BY <1>1, <2>3, <4>1
    <3>2. CASE ~(r > Len(messages))
      <4>1. r \in r..Len(messages) /\ r \in DOMAIN messages /\ r \in Nat
        BY <1>0, <1>1, <3>2
      <4>2. PICK j \in 2..Len(messages') : g[j] = r
        BY <1>1, <4>1
      <4>3. j \in Nat /\ (j = 2 \/ 2 < j)
        BY <1>0
      <4>4. k = r \/ k < r
        BY <1>0, <2>1, <4>2, <4>3
      <4>5. messages[k].seq <= messages[r].seq
        <5>1. CASE k = r
          BY <2>3, <5>1
        <5>2. CASE k < r
          BY <2>2, <4>1, <5>2 DEF RisingInv
        <5> QED BY <4>4, <5>1, <5>2
      <4> QED BY <3>2, <4>5 DEF before
    <3> QED BY <3>1, <3>2
  <2>6. before \in Int
    <3>1. ~(r > Len(messages)) => messages[r].seq \in Int
      <4>1. ~(r > Len(messages)) => r \in DOMAIN messages
        BY <1>0, <1>1
      <4> QED BY <4>1, KnownIs
    <3> QED BY <1>1, <3>1 DEF before
  <2> HIDE DEF z
  <2>7. z <= s
    BY <1>2, <1>3, <2>3, <2>5, <2>6
  <2>8. parts[s].id > 0
    BY <1>5, <2>2, <2>7 DEF z
  <2>9. ~(m.seq > s)
    BY <1>3, <2>3, <2>4, <2>7
  <2> QED BY <2>8, <2>9
<1> QED BY <1>7, <1>8

\* A compaction keeps the order.
LEMMA ShortensRank ==
  ASSUME TypeInv, RisingInv, FilesInv, KnownInv, RankInv, NEW m, NEW g, NEW r, Shortens(m, g, r) PROVE RankInv'
<1>0. /\ messages' \in Seq(Message) /\ DOMAIN messages' = 1..Len(messages') /\ Len(messages') \in Nat
      /\ Len(messages') >= 1 /\ messages'[1] = m /\ DOMAIN messages = 1..Len(messages) /\ Len(messages) \in Nat
      /\ \A i \in 2..Len(messages') : g[i] \in DOMAIN messages /\ messages'[i] = messages[g[i]]
      /\ \A i, j \in 2..Len(messages') : i < j => g[i] < g[j]
  BY ShortensMessages
<1>1. /\ todo = <<>> /\ parts' = parts /\ m.id = 0 /\ m.seq \in Int
      /\ Len(messages') > 1 => m.seq = messages'[2].seq - 1
  BY DEF Shortens, diskVars, Message
<1>2. \A i \in DOMAIN messages' : i = 1 \/ i \in 2..Len(messages')
  BY <1>0
<1>3. \A s : Stays(s)
  BY <1>1 DEF Stays, Places
<1>4. \A x : ~IsPending(x)
  BY <1>1 DEF IsPending, Places
<1>5. ASSUME NEW j \in 2..Len(messages')
      PROVE  /\ messages[g[j]].id \in Nat /\ messages[g[j]].id # 0 /\ messages[g[j]].id > 0 /\ messages[g[j]].seq \in Int
             /\ g[j] \in DOMAIN messages /\ messages'[j] = messages[g[j]]
  <2>0. g[j] \in DOMAIN messages /\ messages'[j] = messages[g[j]] /\ g[j] \in Nat /\ g[j] >= 1
    BY <1>0
  <2>1. messages[g[j]].id \in Nat /\ messages[g[j]].seq \in Int
    BY <2>0, KnownIs
  <2>2. messages[g[j]].id # 0
    BY KeptIsNoSummary
  <2> QED BY <2>0, <2>1, <2>2
<1>6. MemoryRank'
  <2>1. SUFFICES ASSUME NEW i \in DOMAIN messages', NEW j \in DOMAIN messages', i < j
                 PROVE  messages'[i].id < messages'[j].id
    BY DEF MemoryRank
  <2>2. j \in 2..Len(messages')
    BY <1>0, <2>1
  <2>3. CASE i = 1
    BY <1>0, <1>1, <1>5, <2>2, <2>3
  <2>4. CASE i \in 2..Len(messages')
    <3>1. g[i] < g[j]
      BY <1>0, <2>1, <2>2, <2>4
    <3> QED BY <1>5, <2>2, <2>4, <3>1 DEF RankInv, MemoryRank
  <2> QED BY <1>2, <2>3, <2>4
<1>7. FilesRank'
  BY <1>1 DEF RankInv, FilesRank
<1>8. BothRank'
  <2>1. SUFFICES ASSUME NEW s \in DOMAIN parts, NEW j \in DOMAIN messages', Stays(s)'
                 PROVE  /\ messages'[j].seq < s => messages'[j].id < parts[s].id
                        /\ messages'[j].seq > s => messages'[j].id > parts[s].id
                        /\ messages'[j].seq = s /\ parts[s].id = 0 => messages'[j].id = 0
    BY <1>1 DEF BothRank
  <2>2. CASE j = 1
    BY <1>0, <1>1, <2>1, <2>2, ShortensFiles
  <2>3. CASE j \in 2..Len(messages')
    BY <1>3, <1>4, <1>5, <2>3 DEF RankInv, BothRank
  <2> QED BY <1>2, <2>2, <2>3
<1>9. SummaryRank'
  <2>1. SUFFICES ASSUME NEW i \in DOMAIN messages', NEW j \in DOMAIN messages', messages'[i].id = 0, messages'[j].id # 0
                 PROVE  messages'[j].seq > messages'[i].seq
    BY DEF SummaryRank
  <2>2. i = 1 /\ j \in 2..Len(messages') /\ 2 \in 2..Len(messages') /\ Len(messages') > 1
    <3>1. i = 1
      BY <1>2, <1>5, <2>1
    <3>2. j \in 2..Len(messages')
      BY <1>0, <1>1, <1>2, <2>1
    <3> QED BY <1>0, <3>1, <3>2
  <2>3. messages[g[2]].seq <= messages[g[j]].seq
    <3>1. CASE j = 2
      BY <1>5, <2>2, <3>1
    <3>2. CASE j # 2
      <4>1. 2 < j
        BY <2>2, <3>2
      <4>2. g[2] < g[j]
        BY <1>0, <2>2, <4>1
      <4> QED BY <1>5, <2>2, <4>2 DEF RisingInv
    <3> QED BY <3>1, <3>2
  <2>4. m.seq = messages[g[2]].seq - 1 /\ messages'[j] = messages[g[j]] /\ messages'[i] = m
        /\ messages[g[2]].seq \in Int /\ messages[g[j]].seq \in Int
    BY <1>0, <1>1, <1>5, <2>2
  <2> QED BY <1>1, <2>3, <2>4
<1> QED BY <1>6, <1>7, <1>8, <1>9 DEF RankInv

\* A call that deletes nothing and writes at most the file of what is no summary.
LEMMA QuietRank ==
  ASSUME RankInv, todo = <<>>, UNCHANGED <<messages, parts>>, Places("delete")' = {},
         \A x : IsPending(x)' => x.id # 0
  PROVE  RankInv'
<1>1. \A s : Stays(s)
  BY DEF Stays, Places
<1>2. \A x : ~IsPending(x)
  BY DEF IsPending, Places
<1>3. MemoryRank' /\ FilesRank'
  BY DEF RankInv, MemoryRank, FilesRank
<1>4. BothRank'
  <2>1. SUFFICES ASSUME NEW s \in DOMAIN parts, NEW j \in DOMAIN messages
                 PROVE  /\ messages[j].seq < s => messages[j].id < parts[s].id
                        /\ messages[j].seq > s => messages[j].id > parts[s].id
                        /\ messages[j].seq = s /\ parts[s].id = 0 => messages[j].id = 0
    BY DEF BothRank
  <2> QED BY <1>1, <1>2 DEF RankInv, BothRank
<1>5. SummaryRank'
  BY DEF SummaryRank, IsPending
<1> QED BY <1>3, <1>4, <1>5 DEF RankInv

\* A write of the cursor keeps it,
LEMMA MarksRank == ASSUME KnownInv, RankInv, NEW c, Marks(c) PROVE KnownInv' /\ RankInv'
<1>1. /\ todo = <<>> /\ todo' = <<WriteCursor(c)>> /\ UNCHANGED <<messages, parts, open, made>>
  BY DEF Marks, diskVars
<1>2. Places("delete")' = {} /\ Places("part")' = {}
  BY <1>1 DEF Places, WriteCursor
<1>3. \A x : ~IsPending(x)'
  BY <1>2 DEF IsPending
<1>4. RankInv'
  BY <1>1, <1>2, <1>3, QuietRank
<1>5. Known' = Known
  BY <1>1 DEF Known
<1> QED BY <1>1, <1>4, <1>5, NothingNew

\* a pruning,
LEMMA PruneRank == ASSUME TypeInv, KnownInv, RankInv, Prune PROVE KnownInv' /\ RankInv'
<1>1. PICK i \in DOMAIN messages : messages[i].kind = "tool" /\ todo' = <<WritePart(messages[i])>>
  BY DEF Prune
<1>2. todo = <<>> /\ UNCHANGED <<messages, parts, open, made>>
  BY DEF Prune, Idle, memVars, diskVars
<1>3. Places("delete")' = {}
  BY <1>1 DEF Places, WritePart
<1>4. messages[i].id # 0
  BY <1>1, KnownIs DEF KnownInv, Formed
<1>5. \A x : IsPending(x)' => x = messages[i]
  BY <1>1 DEF IsPending, Places, WritePart
<1>6. RankInv'
  BY <1>2, <1>3, <1>4, <1>5, QuietRank
<1>7. Known' = Known
  BY <1>2 DEF Known
<1> QED BY <1>2, <1>6, <1>7, NothingNew

\* Fewer files are in the same order.
LEMMA FewerRank ==
  ASSUME FilesRank, NEW K \in SUBSET DOMAIN parts, parts' = [s \in K |-> parts[s]]
  PROVE  FilesRank' /\ \A s \in DOMAIN parts' : s \in DOMAIN parts /\ parts'[s] = parts[s]
BY DEF FilesRank

\* So are the files with that of a message that is shown.
LEMMA PutRank ==
  ASSUME TypeInv, RisingInv, RankInv, \A s : Stays(s), NEW k \in DOMAIN messages, parts' = Put(messages[k])
  PROVE  /\ FilesRank'
         /\ messages[k].seq \in DOMAIN parts' /\ parts'[messages[k].seq] = messages[k]
         /\ \A s \in DOMAIN parts' : s = messages[k].seq \/ (s \in DOMAIN parts /\ parts'[s] = parts[s])
<1> DEFINE m == messages[k]
           t == m.seq
<1>1. /\ DOMAIN parts' = DOMAIN parts \cup {t}
      /\ \A s \in DOMAIN parts \cup {t} : parts'[s] = IF s = t THEN m ELSE parts[s]
  BY DEF Put
<1>2. t \in Int /\ m.id \in Nat /\ \A s \in DOMAIN parts : s \in Int /\ parts[s].id \in Nat
  BY KnownIs, NumbersAre
<1>3. \A s \in DOMAIN parts : (t < s => m.id < parts[s].id) /\ (t > s => m.id > parts[s].id)
  BY DEF RankInv, BothRank
<1> HIDE DEF m, t
<1>4. FilesRank'
  <2>1. SUFFICES ASSUME NEW s \in DOMAIN parts', NEW u \in DOMAIN parts', s < u PROVE parts'[s].id < parts'[u].id
    BY DEF FilesRank
  <2>2. CASE s = t
    <3>1. u \in DOMAIN parts /\ parts'[u] = parts[u] /\ parts'[s] = m
      BY <1>1, <1>2, <2>1, <2>2
    <3> QED BY <1>3, <2>1, <2>2, <3>1
  <2>3. CASE u = t
    <3>1. s \in DOMAIN parts /\ parts'[s] = parts[s] /\ parts'[u] = m
      BY <1>1, <1>2, <2>1, <2>3
    <3>2. t > s
      BY <1>2, <2>1, <2>3, <3>1
    <3> QED BY <1>2, <1>3, <3>1, <3>2
  <2>4. CASE s # t /\ u # t
    <3>1. s \in DOMAIN parts /\ parts'[s] = parts[s] /\ u \in DOMAIN parts /\ parts'[u] = parts[u]
      BY <1>1, <2>4
    <3> QED BY <2>1, <3>1 DEF RankInv, FilesRank
  <2> QED BY <2>2, <2>3, <2>4
<1>5. /\ t \in DOMAIN parts' /\ parts'[t] = m
      /\ \A s \in DOMAIN parts' : s = t \/ (s \in DOMAIN parts /\ parts'[s] = parts[s])
  BY <1>1
<1> QED BY <1>4, <1>5 DEF m, t

\* The operation that is done keeps the files in order, and brings no message
\* into them that is not shown.
LEMMA PerformRank ==
  ASSUME TypeInv, CallInv, RisingInv, RankInv, todo # <<>>, Perform(todo[1])
  PROVE  /\ FilesRank'
         /\ \A s \in DOMAIN parts' :
              \/ s \in DOMAIN parts /\ parts'[s] = parts[s] /\ Stays(s)
              \/ /\ todo[1].op = "part" /\ s = todo[1].part.seq /\ parts'[s] = todo[1].part
                 /\ \E k \in DOMAIN messages : messages[k] = todo[1].part
<1>1. 1 \in DOMAIN todo /\ todo[1] \in Ops
  BY NextOp
<1>2. Places("delete") \subseteq {1}
  BY DEF CallInv
<1>3. todo[1].op # "delete" => \A s : Stays(s)
  BY <1>2 DEF Stays, Places
<1>4. CASE todo[1].op = "part"
  <2>1. 1 \in Places("part")
    BY <1>1, <1>4 DEF Places
  <2>2. PICK k \in DOMAIN messages : messages[k] = todo[1].part
    BY <2>1 DEF CallInv
  <2>3. parts' = Put(messages[k])
    BY <1>4, <2>2 DEF Perform
  <2>4. /\ FilesRank'
        /\ messages[k].seq \in DOMAIN parts' /\ parts'[messages[k].seq] = messages[k]
        /\ \A s \in DOMAIN parts' : s = messages[k].seq \/ (s \in DOMAIN parts /\ parts'[s] = parts[s])
    BY <1>3, <1>4, <2>3, PutRank
  <2> QED BY <1>3, <1>4, <2>2, <2>4
<1>5. CASE todo[1].op = "delete"
  <2> DEFINE K == {t \in DOMAIN parts : t >= todo[1].before}
  <2>1. parts' = [s \in K |-> parts[s]]
    BY <1>5 DEF Perform
  <2>2. \A s \in K : s >= todo[1].before
    OBVIOUS
  <2>3. K \in SUBSET DOMAIN parts /\ DOMAIN parts' = K
    BY <2>1
  <2> HIDE DEF K
  <2>4. FilesRank' /\ \A s \in DOMAIN parts' : s \in DOMAIN parts /\ parts'[s] = parts[s]
    BY <2>1, <2>3, FewerRank DEF RankInv
  <2>5. \A s \in DOMAIN parts' : Stays(s)
    BY <1>2, <2>2, <2>3 DEF Stays
  <2> QED BY <2>4, <2>5
<1>6. CASE todo[1].op # "part" /\ todo[1].op # "delete"
  <2>1. parts' = parts
    BY <1>6 DEF Perform
  <2> QED BY <1>3, <1>6, <2>1 DEF RankInv, FilesRank
<1> QED BY <1>4, <1>5, <1>6

\* a file operation,
LEMMA WriteRank == ASSUME TypeInv, CallInv, RisingInv, KnownInv, RankInv, Write PROVE KnownInv' /\ RankInv'
<1>1. todo # <<>> /\ Perform(todo[1]) /\ todo' = Tail(todo) /\ UNCHANGED <<messages, open, made>>
  BY WriteWrites DEF Writes, memVars
<1>2. /\ FilesRank'
      /\ \A s \in DOMAIN parts' :
           \/ s \in DOMAIN parts /\ parts'[s] = parts[s] /\ Stays(s)
           \/ /\ todo[1].op = "part" /\ s = todo[1].part.seq /\ parts'[s] = todo[1].part
              /\ \E k \in DOMAIN messages : messages[k] = todo[1].part
  BY <1>1, PerformRank
<1>3. Known' \subseteq Known
  BY <1>1, <1>2 DEF Known
<1>4. KnownInv'
  BY <1>1, <1>3, NothingNew
<1>5. /\ 1 \in DOMAIN todo
      /\ \A i \in DOMAIN todo' : i + 1 \in DOMAIN todo /\ todo'[i] = todo[i + 1]
      /\ \A i \in DOMAIN todo : i # 1 => i - 1 \in DOMAIN todo' /\ todo'[i - 1] = todo[i]
  BY <1>1, NextOp
<1>6. ASSUME NEW x, IsPending(x)' PROVE IsPending(x)
  BY <1>5, <1>6 DEF IsPending, Places
<1>7. ASSUME NEW x, IsPending(x), todo[1].op = "part" => x # todo[1].part PROVE IsPending(x)'
  <2>1. PICK i \in DOMAIN todo : todo[i].op = "part" /\ todo[i].part = x
    BY <1>7 DEF IsPending, Places
  <2>2. i # 1
    BY <1>7, <2>1
  <2>3. i - 1 \in DOMAIN todo' /\ todo'[i - 1] = todo[i]
    BY <1>5, <2>2
  <2> QED BY <2>1, <2>3 DEF IsPending, Places
<1>8. MemoryRank'
  BY <1>1 DEF RankInv, MemoryRank
<1>9. SummaryRank'
  <2>1. SUFFICES ASSUME NEW i \in DOMAIN messages, NEW j \in DOMAIN messages,
                        messages[i].id = 0, IsPending(messages[i])', messages[j].id # 0
                 PROVE  messages[j].seq > messages[i].seq
    BY <1>1 DEF SummaryRank
  <2>2. IsPending(messages[i])
    BY <1>1, <1>6, <2>1 DEF IsPending
  <2> QED BY <2>1, <2>2 DEF RankInv, SummaryRank
<1>10. BothRank'
  <2>1. SUFFICES ASSUME NEW s \in DOMAIN parts', NEW j \in DOMAIN messages
                 PROVE  /\ messages[j].seq < s => messages[j].id < parts'[s].id
                        /\ messages[j].seq > s => messages[j].id > parts'[s].id
                        /\ messages[j].seq = s /\ parts'[s].id = 0 => messages[j].id = 0 \/ IsPending(messages[j])'
    BY <1>1 DEF BothRank
  <2>2. CASE s \in DOMAIN parts /\ parts'[s] = parts[s] /\ Stays(s) /\ ~(todo[1].op = "part" /\ s = todo[1].part.seq)
    <3>1. /\ messages[j].seq < s => messages[j].id < parts[s].id
          /\ messages[j].seq > s => messages[j].id > parts[s].id
          /\ messages[j].seq = s /\ parts[s].id = 0 => messages[j].id = 0 \/ IsPending(messages[j])
      BY <2>2 DEF RankInv, BothRank
    <3>2. ASSUME messages[j].seq = s, IsPending(messages[j]) PROVE IsPending(messages[j])'
      <4>1. todo[1].op = "part" => messages[j] # todo[1].part
        BY <2>2, <3>2
      <4> DEFINE x == messages[j]
      <4>2. x' = x
        BY <1>1
      <4>3. IsPending(x) /\ (todo[1].op = "part" => x # todo[1].part)
        BY <3>2, <4>1
      <4> QED BY <1>1, <1>5, <1>7, <4>3 DEF IsPending
    <3> QED BY <2>2, <3>1, <3>2
  <2>3. ASSUME todo[1].op = "part", s = todo[1].part.seq, parts'[s] = todo[1].part,
               NEW k \in DOMAIN messages, messages[k] = todo[1].part
        PROVE  /\ messages[j].seq < s => messages[j].id < parts'[s].id
               /\ messages[j].seq > s => messages[j].id > parts'[s].id
               /\ messages[j].seq = s /\ parts'[s].id = 0 => messages[j].id = 0
    <3>1. /\ parts'[s] = messages[k] /\ s = messages[k].seq /\ s \in Int /\ messages[j].seq \in Int
          /\ messages[j].id \in Nat /\ messages[k].id \in Nat /\ j \in Nat /\ k \in Nat
      BY <2>3, KnownIs, NumbersAre
    <3>2. ASSUME messages[j].seq < s PROVE messages[j].id < messages[k].id
      <4>1. ~(k < j) /\ k # j
        BY <3>1, <3>2 DEF RisingInv
      <4>2. j < k
        BY <3>1, <4>1
      <4> QED BY <4>2 DEF RankInv, MemoryRank
    <3>3. ASSUME messages[j].seq > s PROVE messages[j].id > messages[k].id
      <4>1. ~(j < k) /\ k # j
        BY <3>1, <3>3 DEF RisingInv
      <4>2. k < j
        BY <3>1, <4>1
      <4>3. messages[k].id < messages[j].id
        BY <4>2 DEF RankInv, MemoryRank
      <4> QED BY <3>1, <4>3
    <3>4. ASSUME messages[j].seq = s, messages[k].id = 0 PROVE messages[j].id = 0
      <4>1. IsPending(messages[k])
        BY <1>5, <2>3 DEF IsPending, Places
      <4>2. ~(messages[j].seq > messages[k].seq)
        BY <3>1, <3>4
      <4> QED BY <3>4, <4>1, <4>2 DEF RankInv, SummaryRank
    <3> QED BY <3>1, <3>2, <3>3, <3>4
  <2>4. CASE s \in DOMAIN parts /\ parts'[s] = parts[s] /\ Stays(s) /\ todo[1].op = "part" /\ s = todo[1].part.seq
    <3>1. 1 \in Places("part")
      BY <1>5, <2>4 DEF Places
    <3>2. PICK k \in DOMAIN messages : messages[k] = todo[1].part
      BY <3>1 DEF CallInv
    <3>3. parts' = Put(messages[k])
      BY <1>1, <2>4, <3>2 DEF Perform
    <3>4. parts'[s] = messages[k]
      BY <2>4, <3>2, <3>3 DEF Put
    <3> QED BY <2>3, <2>4, <3>2, <3>4
  <2>5. \/ s \in DOMAIN parts /\ parts'[s] = parts[s] /\ Stays(s)
        \/ /\ todo[1].op = "part" /\ s = todo[1].part.seq /\ parts'[s] = todo[1].part
           /\ \E k \in DOMAIN messages : messages[k] = todo[1].part
    BY <1>2
  <2> QED BY <2>2, <2>3, <2>4, <2>5
<1> QED BY <1>2, <1>4, <1>8, <1>9, <1>10 DEF RankInv

\* After a stop only the files are left.
LEMMA StoppedRank ==
  ASSUME KnownInv, Stopped, FilesRank', \A s \in DOMAIN parts' : parts'[s] \in Known PROVE KnownInv' /\ RankInv'
<1>1. messages' = <<>> /\ open' = <<>> /\ made' = made /\ DOMAIN messages' = {}
  BY DEF Stopped
<1>2. Known' \subseteq Known
  BY <1>1 DEF Known
<1>3. KnownInv'
  BY <1>1, <1>2, NothingNew
<1>4. MemoryRank' /\ BothRank' /\ SummaryRank'
  BY <1>1 DEF MemoryRank, BothRank, SummaryRank
<1> QED BY <1>3, <1>4 DEF RankInv

\* a cancellation,
LEMMA CancelRank == ASSUME TypeInv, CallInv, RisingInv, KnownInv, RankInv, Cancel PROVE KnownInv' /\ RankInv'
<1>1. /\ Stopped
      /\ \/ todo = <<>> /\ UNCHANGED diskVars
         \/ todo # <<>> /\ todo[1] \in Ops /\ Perform(todo[1])
  BY CancelDisk
<1>2. CASE UNCHANGED diskVars
  <2>1. parts' = parts
    BY <1>2 DEF diskVars
  <2>2. FilesRank' /\ \A s \in DOMAIN parts' : parts'[s] \in Known
    BY <2>1, KnownIs DEF RankInv, FilesRank
  <2> QED BY <1>1, <2>2, StoppedRank
<1>3. CASE todo # <<>> /\ Perform(todo[1])
  <2>1. FilesRank' /\ \A s \in DOMAIN parts' : \/ s \in DOMAIN parts /\ parts'[s] = parts[s]
                                               \/ \E k \in DOMAIN messages : messages[k] = parts'[s]
    BY <1>3, PerformRank
  <2>2. \A s \in DOMAIN parts' : parts'[s] \in Known
    BY <2>1 DEF Known
  <2> QED BY <1>1, <2>1, <2>2, StoppedRank
<1> QED BY <1>1, <1>2, <1>3

\* a crash,
LEMMA CrashRank == ASSUME TypeInv, CallInv, RisingInv, KnownInv, RankInv, Crash PROVE KnownInv' /\ RankInv'
<1>1. /\ Stopped
      /\ \/ todo = <<>> /\ UNCHANGED diskVars
         \/ todo # <<>> /\ todo[1] \in Ops /\ Tear(todo[1])
  BY CrashDisk
<1>2. \A s \in DOMAIN parts' : s \in DOMAIN parts /\ parts'[s] = parts[s]
  <2>1. CASE UNCHANGED diskVars
    BY <2>1 DEF diskVars
  <2>2. CASE todo # <<>> /\ todo[1] \in Ops /\ Tear(todo[1])
    <3>1. DiskInv /\ meta \in BOOLEAN
      BY DEF TypeInv, CountInv
    <3> QED BY <2>2, <3>1, TearDisk
  <2> QED BY <1>1, <2>1, <2>2
<1>3. FilesRank'
  BY <1>2 DEF RankInv, FilesRank
<1>4. \A s \in DOMAIN parts' : parts'[s] \in Known
  BY <1>2, KnownIs
<1> QED BY <1>1, <1>3, <1>4, StoppedRank

\* a resumption over the metadata,
LEMMA ResumeRank ==
  ASSUME TypeInv, CallInv, KnownInv, RankInv, Resume, ~restarted' PROVE KnownInv' /\ RankInv'
<1>1. /\ messages' = (IF meta THEN Restored ELSE <<>>) /\ UNCHANGED <<parts, open, made, todo>> /\ ~up
      /\ meta \/ DOMAIN parts = {}
  BY DEF Resume, callVars, diskVars
<1>2. /\ Restored \in Seq(Message) /\ DOMAIN Restored = 1..Len(Restored)
      /\ \A i \in DOMAIN Restored : Restored[i].seq \in DOMAIN parts /\ parts[Restored[i].seq] = Restored[i]
      /\ \A i, j \in DOMAIN Restored : i < j => Restored[i].seq < Restored[j].seq
  BY RestoredIs DEF TypeInv
<1>3. /\ \A i \in DOMAIN messages' : messages'[i].seq \in DOMAIN parts /\ parts[messages'[i].seq] = messages'[i]
      /\ \A i, j \in DOMAIN messages' : i < j => messages'[i].seq < messages'[j].seq
  <2>1. CASE meta
    BY <1>1, <1>2, <2>1
  <2>2. CASE ~meta
    <3>1. DOMAIN messages' = {}
      BY <1>1, <2>2
    <3> QED BY <3>1
  <2> QED BY <2>1, <2>2
<1>4. Known' \subseteq Known
  BY <1>1, <1>3 DEF Known
<1>5. KnownInv'
  BY <1>1, <1>4, NothingNew
<1>6. MemoryRank'
  BY <1>3 DEF RankInv, FilesRank, MemoryRank
<1>7. FilesRank'
  BY <1>1 DEF RankInv, FilesRank
<1>8. BothRank'
  <2>1. SUFFICES ASSUME NEW s \in DOMAIN parts, NEW j \in DOMAIN messages'
                 PROVE  /\ messages'[j].seq < s => messages'[j].id < parts[s].id
                        /\ messages'[j].seq > s => messages'[j].id > parts[s].id
                        /\ messages'[j].seq = s /\ parts[s].id = 0 => messages'[j].id = 0
    BY <1>1 DEF BothRank
  <2> DEFINE t == messages'[j].seq
  <2>2. t \in DOMAIN parts /\ parts[t] = messages'[j]
    BY <1>3
  <2>3. s \in Int /\ t \in Int /\ parts[s].id \in Nat /\ parts[t].id \in Nat
    BY <2>2, NumbersAre, KnownIs
  <2>4. (t < s => parts[t].id < parts[s].id) /\ (s < t => parts[s].id < parts[t].id)
    BY <2>2 DEF RankInv, FilesRank
  <2> HIDE DEF t
  <2>5. /\ t < s => parts[t].id < parts[s].id
        /\ t > s => parts[t].id > parts[s].id
        /\ t = s /\ parts[s].id = 0 => parts[t].id = 0
    BY <2>3, <2>4
  <2> QED BY <2>2, <2>5 DEF t
<1>9. SummaryRank'
  <2>1. todo' = <<>>
    BY <1>1 DEF CallInv
  <2>2. \A x : ~IsPending(x)'
    BY <2>1 DEF IsPending, Places
  <2> QED BY <2>2 DEF SummaryRank, IsPending
<1> QED BY <1>5, <1>6, <1>7, <1>8, <1>9 DEF RankInv

\* The marker of a new event is behind all that is in the files.
LEMMA NewEventPuts ==
  ASSUME TypeInv, FilesInv, NewEvent
  PROVE  \/ UNCHANGED parts
         \/ \E m \in Message : /\ parts' = Put(m) /\ m.id = made + 1 /\ m.kind = "user" /\ m.calls = {} /\ m.call = NoCall
                               /\ \A s \in DOMAIN parts : s <= m.seq
<1> DEFINE seq == IF cursor.nextSeq > 0 THEN cursor.nextSeq
                  ELSE IF DOMAIN parts # {} THEN Max(DOMAIN parts) + 1 ELSE 0
           m   == [seq |-> seq, kind |-> "user", id |-> made + 1, calls |-> {}, call |-> NoCall,
                   covers |-> {}]
<1>1. parts' = Put(m) \/ UNCHANGED parts
  BY DEF NewEvent
<1>2. made < MaxMessages
  BY DEF NewEvent
<1>3. PICK b \in Nat : DOMAIN parts \subseteq -1..b
  BY DEF TypeInv, DiskInv
<1>4. DOMAIN parts # {} => Max(DOMAIN parts) \in DOMAIN parts /\ \A s \in DOMAIN parts : s <= Max(DOMAIN parts)
  BY <1>3, MaxIs
<1>5. \A s \in DOMAIN parts : s \in Int /\ s >= -1
  BY <1>3
<1>6. cursor.nextSeq > 0 => cursor # NoCursor /\ cursor.nextSeq \in Nat
  BY DEF TypeInv, DiskInv, NoCursor, Cursors
<1> DEFINE top == Max(DOMAIN parts)
<1> HIDE DEF top
<1>7. DOMAIN parts # {} => top \in Int /\ top >= -1 /\ \A s \in DOMAIN parts : s <= top
  BY <1>4, <1>5 DEF top
<1>8. seq = IF cursor.nextSeq > 0 THEN cursor.nextSeq ELSE IF DOMAIN parts # {} THEN top + 1 ELSE 0
  BY DEF top
<1> HIDE DEF seq
<1>9. seq \in Nat /\ \A s \in DOMAIN parts : s <= seq
  <2>1. CASE cursor.nextSeq > 0
    BY <1>6, <1>8, <2>1 DEF FilesInv
  <2>2. CASE ~(cursor.nextSeq > 0) /\ DOMAIN parts # {}
    BY <1>5, <1>7, <1>8, <2>2
  <2>3. CASE ~(cursor.nextSeq > 0) /\ DOMAIN parts = {}
    BY <1>8, <2>3
  <2> QED BY <2>1, <2>2, <2>3
<1>10. "user" \in Kinds /\ {} \in SUBSET CallIds /\ NoCall \in CallIds \cup {NoCall}
  BY DEF Kinds
<1>11. m \in Message /\ m.seq = seq /\ m.id = made + 1
  BY <1>2, <1>9, <1>10, MessageIs
<1>12. m.kind = "user" /\ m.calls = {} /\ m.call = NoCall
  OBVIOUS
<1> HIDE DEF m
<1> QED BY <1>1, <1>9, <1>11, <1>12

\* and the marker of a new event.
LEMMA NewEventRank ==
  ASSUME TypeInv, CallInv, FilesInv, KnownInv, RankInv, NewEvent PROVE KnownInv' /\ RankInv'
<1>1. /\ ~up /\ made' = made + 1 /\ messages' = messages /\ open' = open /\ todo' = todo
      /\ messages = <<>> /\ open = <<>>
  BY NewEventIs DEF CallInv, memVars, callVars
<1>2. /\ DOMAIN messages' = {} /\ DOMAIN open' = {}
  BY <1>1
<1>3. MemoryRank' /\ BothRank' /\ SummaryRank' /\ OpenInv'
  BY <1>2 DEF MemoryRank, BothRank, SummaryRank, OpenInv
<1>4. made \in Nat
  BY KnownIs
<1>5. \A a \in Known : Formed(a)'
  <2>1. \A a \in Known : a.id \in Nat /\ a.id <= made
    BY KnownIs DEF KnownInv, Formed
  <2>2. \A a \in Known : a.id <= made'
    BY <1>1, <1>4, <2>1
  <2> QED BY <2>2 DEF KnownInv, Formed
<1>6. CASE UNCHANGED parts
  <2>1. Known' = Known
    BY <1>1, <1>6 DEF Known
  <2>2. FilesRank'
    BY <1>6 DEF RankInv, FilesRank
  <2>3. KnownInv'
    BY <1>3, <1>5, <2>1 DEF KnownInv
  <2> QED BY <1>3, <2>2, <2>3 DEF RankInv
<1>7. ASSUME NEW m \in Message, parts' = Put(m), m.id = made + 1, m.kind = "user", m.calls = {}, m.call = NoCall,
             \A s \in DOMAIN parts : s <= m.seq
      PROVE  KnownInv' /\ RankInv'
  <2>1. /\ DOMAIN parts' = DOMAIN parts \cup {m.seq}
        /\ \A s \in DOMAIN parts \cup {m.seq} : parts'[s] = IF s = m.seq THEN m ELSE parts[s]
    BY <1>7 DEF Put
  <2>2. Known' \subseteq Known \cup {m}
    BY <1>1, <2>1 DEF Known
  <2>3. Formed(m)'
    BY <1>1, <1>4, <1>7 DEF Formed
  <2>4. ASSUME NEW a \in Known PROVE Ordered(a, m) /\ Ordered(m, a)
    <3>1. a.id \in Nat /\ a.id <= made
      BY KnownIs DEF KnownInv, Formed
    <3>2. ~(m.id < a.id)
      BY <1>4, <1>7, <3>1
    <3> QED BY <1>7, <3>2 DEF Ordered
  <2>5. Ordered(m, m)
    BY <1>7 DEF Ordered
  <2>6. \A a, b \in Known' : Ordered(a, b)
    BY <2>2, <2>4, <2>5 DEF KnownInv
  <2>7. \A a \in Known' : Formed(a)'
    BY <1>5, <2>2, <2>3
  <2>8. KnownInv'
    BY <1>3, <2>6, <2>7 DEF KnownInv
  <2>9. FilesRank'
    <3>1. SUFFICES ASSUME NEW s \in DOMAIN parts', NEW u \in DOMAIN parts', s < u PROVE parts'[s].id < parts'[u].id
      BY DEF FilesRank
    <3>2. m.seq \in Int /\ \A x \in DOMAIN parts : x \in Int /\ parts[x].id \in Nat /\ parts[x].id <= made
      BY NumbersAre, KnownIs DEF Message, KnownInv, Formed
    <3>3. s # m.seq
      BY <1>7, <2>1, <3>1, <3>2
    <3>4. s \in DOMAIN parts /\ parts'[s] = parts[s]
      BY <2>1, <3>3
    <3>5. CASE u = m.seq
      <4>1. parts'[u] = m
        BY <2>1, <3>5
      <4>2. parts[s].id \in Nat /\ parts[s].id <= made /\ m.id = made + 1
        BY <1>7, <3>2, <3>4
      <4> QED BY <1>4, <3>4, <4>1, <4>2
    <3>6. CASE u # m.seq
      <4>1. u \in DOMAIN parts /\ parts'[u] = parts[u]
        BY <2>1, <3>6
      <4> QED BY <3>1, <3>4, <4>1 DEF RankInv, FilesRank
    <3> QED BY <3>5, <3>6
  <2> QED BY <1>3, <2>8, <2>9 DEF RankInv
<1> QED BY <1>6, <1>7, NewEventPuts

\* Every step keeps it.
LEMMA ShownStep == ASSUME IInv, ShownInv, [Next]_vars PROVE ShownInv'
<1>0. TypeInv /\ CallInv /\ open' \in Seq(CallIds)
  <2>1. TypeInv /\ CallInv
    BY DEF IInv
  <2>2. TypeInv'
    BY <2>1, CallStep
  <2> QED BY <2>1, <2>2 DEF TypeInv, MemInv
<1>1. SUFFICES ASSUME ~restarted' PROVE KnownInv' /\ RankInv'
  BY DEF ShownInv
<1>2. ~restarted
  BY <1>1, RestartedStays
<1>3. RisingInv /\ FilesInv /\ KnownInv /\ RankInv
  BY <1>2 DEF IInv, StoredInv, OrderInv, ShownInv
<1>4. CASE Write
  BY <1>0, <1>3, <1>4, WriteRank
<1>5. ASSUME NEW m, Adds(m), Fits(m) PROVE KnownInv' /\ RankInv'
  BY <1>0, <1>3, <1>5, AddsKnown, AddsRank
<1>6. CASE AddUser \/ AddAssistant \/ AddToolResult \/ Handover
  BY <1>0, <1>5, <1>6, AddUserFits, AddAssistantFits, AddToolResultFits, HandoverFits
<1>7. CASE (\E k \in OutputKeys : SetOutput(k)) \/ Checkpoint
  BY <1>0, <1>3, <1>7, SetOutputMarks, CheckpointMarks, MarksRank
<1>8. ASSUME NEW m, NEW g, NEW r, Shortens(m, g, r) PROVE KnownInv' /\ RankInv'
  BY <1>0, <1>3, <1>8, ShortensKnown, ShortensRank
<1>9. CASE Compact \/ CompactStructure
  BY <1>0, <1>8, <1>9, CompactShortens, CompactStructureShortens
<1>10. CASE Prune
  BY <1>0, <1>3, <1>10, PruneRank
<1>11. CASE Crash
  BY <1>0, <1>3, <1>11, CrashRank
<1>12. CASE Cancel
  BY <1>0, <1>3, <1>12, CancelRank
<1>13. CASE Resume
  BY <1>0, <1>1, <1>3, <1>13, ResumeRank
<1>14. CASE NewEvent
  BY <1>0, <1>3, <1>14, NewEventRank
<1>15. CASE UNCHANGED vars
  <2>1. UNCHANGED <<messages, parts, open, made, todo>>
    BY <1>15 DEF vars, memVars, callVars, diskVars
  <2>2. Known' = Known
    BY <2>1 DEF Known
  <2>3. KnownInv'
    BY <1>3, <2>1, <2>2, NothingNew
  <2>4. RankInv'
    BY <1>3, <2>1 DEF RankInv, MemoryRank, FilesRank, BothRank, SummaryRank, Stays, IsPending, Places
  <2> QED BY <2>3, <2>4
<1> QED BY <1>4, <1>6, <1>7, <1>9, <1>10, <1>11, <1>12, <1>13, <1>14, <1>15 DEF Next

\* It holds at first.
LEMMA ShownInit == Init => ShownInv
<1>1. SUFFICES ASSUME Init PROVE KnownInv /\ RankInv
  BY DEF ShownInv
<1>2. DOMAIN messages = {} /\ DOMAIN parts = {} /\ DOMAIN open = {}
  BY <1>1 DEF Init
<1>3. Known = {}
  BY <1>2 DEF Known
<1>4. KnownInv
  BY <1>2, <1>3 DEF KnownInv, OpenInv
<1>5. RankInv
  BY <1>2 DEF RankInv, MemoryRank, FilesRank, BothRank, SummaryRank
<1> QED BY <1>4, <1>5

\* A result in memory is behind its call, other results between them at most.
LEMMA ShownIsPaired == ASSUME TypeInv, KnownInv, RankInv PROVE Paired(messages)
<1>1. messages \in Seq(Message) /\ Len(messages) \in Nat /\ DOMAIN messages = 1..Len(messages)
  BY DEF TypeInv, MemInv
<1>2. ASSUME NEW i \in 1..Len(messages)
      PROVE  /\ messages[i] \in Known /\ Formed(messages[i]) /\ i \in Nat
             /\ messages[i].id \in Nat
             /\ messages[i].kind = "tool" => messages[i].call[1] \in Nat
  <2>1. messages[i] \in Known
    BY <1>1, KnownIs
  <2> QED BY <2>1, KnownIs DEF KnownInv, Formed
<1>3. ASSUME NEW i \in 1..Len(messages), NEW j \in 1..Len(messages), i < j PROVE messages[i].id < messages[j].id
  BY <1>1, <1>3 DEF RankInv, MemoryRank
<1>4. ASSUME NEW i \in 1..Len(messages)
      PROVE  /\ messages[i].kind = "tool" <=> messages[i].call # NoCall
             /\ messages[i].kind = "tool" => messages[i].calls = {}
  BY <1>2 DEF Formed
<1>5. ASSUME NEW i \in 1..Len(messages), messages[i].kind = "tool", messages[i].call \in AllCalls(messages)
      PROVE  \E p \in 1..Len(messages) : /\ p < i /\ messages[i].call \in messages[p].calls
                                         /\ \A l \in p + 1..i : messages[l].kind = "tool"
  <2>1. PICK p \in 1..Len(messages) : messages[i].call \in messages[p].calls
    BY <1>1, <1>5 DEF AllCalls
  <2>2. messages[i].call[1] = messages[p].id
    BY <1>2, <2>1 DEF Formed
  <2>3. messages[p].id < messages[i].id
    BY <1>2, <1>5, <2>2 DEF Formed
  <2>4. p < i
    <3>1. /\ messages[p].id \in Nat /\ messages[i].id \in Nat /\ p \in Nat /\ i \in Nat
          /\ i < p => messages[i].id < messages[p].id
      BY <1>2, <1>3
    <3> QED BY <2>3, <3>1
  <2>5. ASSUME NEW l \in p + 1..i PROVE messages[l].kind = "tool"
    <3>1. l \in 1..Len(messages) /\ p < l /\ (l = i \/ l < i)
      BY <1>1
    <3>2. CASE l = i
      BY <1>5, <3>2
    <3>3. CASE l < i
      <4>1. messages[p].id < messages[l].id /\ messages[l].id < messages[i].id
        BY <1>3, <3>1, <3>3
      <4>2. Ordered(messages[i], messages[l])
        BY <1>2, <3>1 DEF KnownInv
      <4> QED BY <1>5, <2>2, <4>1, <4>2 DEF Ordered
    <3> QED BY <3>1, <3>2, <3>3
  <2> QED BY <2>1, <2>4, <2>5
<1>6. ASSUME NEW i \in 1..Len(messages), NEW j \in 1..Len(messages),
             messages[i].kind = "tool", messages[j].kind = "tool", messages[i].call = messages[j].call
      PROVE  i = j
  <2>1. Ordered(messages[i], messages[j])
    BY <1>2 DEF KnownInv
  <2>2. messages[i].id = messages[j].id /\ messages[i].id \in Nat /\ messages[j].id \in Nat /\ i \in Nat /\ j \in Nat
    BY <1>2, <1>6, <2>1 DEF Ordered
  <2>3. ~(i < j) /\ ~(j < i)
    BY <1>3, <2>2
  <2> QED BY <2>2, <2>3
<1> QED BY <1>1, <1>4, <1>5, <1>6 DEF Paired

\* What the LLM is sent is well formed, for any number of messages, compactions,
\* cancellations and crashes: each call has one result, right behind it, and each
\* result has its call (ViewWellFormed, with its exception).
THEOREM ViewStaysWellFormed == Spec => []ViewWellFormed
<1>1. Init => ShownInv
  BY ShownInit
<1>2. IInv /\ ShownInv /\ [Next]_vars => ShownInv'
  BY ShownStep
<1>3. ASSUME IInv, ShownInv PROVE ViewWellFormed
  <2>1. SUFFICES ASSUME ~restarted PROVE WellFormed(View(messages))
    BY DEF ViewWellFormed
  <2>2. Paired(messages)
    BY <1>3, <2>1, ShownIsPaired DEF IInv, ShownInv
  <2> QED BY <2>2, PairedIsWellFormed
<1>4. IInv /\ ShownInv => ViewWellFormed
  BY <1>3
<1> QED BY <1>1, <1>2, <1>4, Invariant, PTL DEF Spec
=============================================================================
