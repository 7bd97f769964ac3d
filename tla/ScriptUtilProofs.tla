-------------------------- MODULE ScriptUtilProofs --------------------------
(***************************************************************************)
(* Proofs about the util module.  First about swap_authorities, for texts  *)
(* of any length; then about the calls on documents, for documents of any  *)
(* shape and size.                                                         *)
(***************************************************************************)
EXTENDS ScriptUtil, FiniteSetTheorems, SequenceTheorems, WellFoundedInduction, TLAPS

-----------------------------------------------------------------------------
(* What the helpers of swap_authorities return.                            *)

\* A set of offsets has a least and, if none exceeds a bound, a greatest.
LEMMA LeastOf ==
  ASSUME NEW S \in SUBSET Nat, S # {}
  PROVE  \E n \in S : \A m \in S : n <= m
<1>1. PICK n \in S : \A m \in S : ~(<<m, n>> \in OpToRel(<, Nat))
  BY WFMin, NatLessThanWellFounded
<1>2. ASSUME NEW m \in S
      PROVE  n <= m
  <2>1. ~(m < n)
    <3>1. m < n => <<m, n>> \in OpToRel(<, Nat)
      BY DEF OpToRel
    <3> QED
      BY <1>1, <3>1
  <2>2. m \in Nat /\ n \in Nat
    OBVIOUS
  <2> QED
    BY <2>1, <2>2
<1> QED
  BY <1>2

LEMMA GreatestOf ==
  ASSUME NEW top \in Nat, NEW S \in SUBSET (0 .. top), S # {}
  PROVE  \E n \in S : \A m \in S : m <= n
<1> DEFINE below == {top - n : n \in S}
<1>1. \A n \in S : n \in Nat /\ top - n \in Nat
  OBVIOUS
<1>. below \in SUBSET Nat /\ below # {}
  BY <1>1
<1>2. PICK d \in below : \A m \in below : d <= m
  BY LeastOf
<1>3. PICK n \in S : d = top - n
  BY <1>2
<1>4. \A m \in S : m <= n
  BY <1>2, <1>3
<1> QED
  BY <1>4

SeparatorAt(t, n) == t[n] = ":" /\ t[n + 1] = "/" /\ t[n + 2] = "/"

LEMMA SeparatorIs ==
  ASSUME NEW t \in Seq(Characters), NEW n \in 1 .. Len(t) - 2
  PROVE  SubSeq(t, n, n + 2) = Separator <=> SeparatorAt(t, n)
<1>1. n \in Int /\ n + 2 \in Int /\ \A i \in n .. n + 2 : t[i] \in Characters
  OBVIOUS
<1>2. n <= n + 2 /\ (n + 2) - n + 1 = 3
  OBVIOUS
<1>3. /\ SubSeq(t, n, n + 2) \in Seq(Characters)
      /\ Len(SubSeq(t, n, n + 2)) = 3
      /\ \A i \in 1 .. 3 : SubSeq(t, n, n + 2)[i] = t[n + i - 1]
  BY <1>1, <1>2, SubSeqProperties
<1>4. Separator \in Seq(Characters) /\ Len(Separator) = 3
  <2>1. ":" \in Characters /\ "/" \in Characters
    BY DEF Characters, Delimiters
  <2> QED
    BY <2>1 DEF Separator
<1>5. Separator[1] = ":" /\ Separator[2] = "/" /\ Separator[3] = "/"
  BY DEF Separator
<1>6. ASSUME SeparatorAt(t, n)
      PROVE  SubSeq(t, n, n + 2) = Separator
  <2>1. \A i \in 1 .. 3 : SubSeq(t, n, n + 2)[i] = Separator[i]
    <3>1. /\ SubSeq(t, n, n + 2)[1] = t[n]
          /\ SubSeq(t, n, n + 2)[2] = t[n + 1]
          /\ SubSeq(t, n, n + 2)[3] = t[n + 2]
      BY <1>3
    <3> QED
      BY <3>1, <1>5, <1>6 DEF SeparatorAt
  <2> QED
    BY <2>1, <1>3, <1>4, SeqEqual
<1>7. ASSUME SubSeq(t, n, n + 2) = Separator
      PROVE  SeparatorAt(t, n)
  BY <1>3, <1>5, <1>7 DEF SeparatorAt
<1> QED
  BY <1>6, <1>7

\* find stops at the first separator,
LEMMA FoundIs ==
  ASSUME NEW t \in Seq(Characters), NEW c \in 0 .. Len(t), NEW s \in FindSeparator(t, c)
  PROVE  /\ s \in c .. Len(t) - 3
         /\ SeparatorAt(t, s + 1)
         /\ \A n \in c + 1 .. s : ~SeparatorAt(t, n)
<1>1. s \in c .. Len(t) - 3 /\ SubSeq(t, s + 1, s + 3) = Separator
  BY DEF FindSeparator
<1>2. \A n \in c .. Len(t) - 3 : SubSeq(t, n + 1, n + 3) = Separator => s <= n
  BY DEF FindSeparator
<1>3. SeparatorAt(t, s + 1)
  BY <1>1, SeparatorIs
<1>4. ASSUME NEW n \in c + 1 .. s, SeparatorAt(t, n)
      PROVE  FALSE
  <2>1. SubSeq(t, n, n + 2) = Separator
    BY <1>1, <1>4, SeparatorIs
  <2>2. n - 1 \in c .. Len(t) - 3 /\ (n - 1) + 1 = n /\ (n - 1) + 3 = n + 2
    BY <1>1
  <2>3. s <= n - 1
    BY <2>1, <2>2, <1>2
  <2> QED
    BY <2>3, <1>1
<1> QED
  BY <1>1, <1>3, <1>4

\* and finds one if there is one.
LEMMA NoneFound ==
  ASSUME NEW t \in Seq(Characters), NEW c \in 0 .. Len(t), FindSeparator(t, c) = {}
  PROVE  \A n \in c + 1 .. Len(t) - 2 : ~SeparatorAt(t, n)
<1> SUFFICES ASSUME NEW n \in c + 1 .. Len(t) - 2, SeparatorAt(t, n)
             PROVE  FALSE
  OBVIOUS
<1> DEFINE offsets == {i \in c .. Len(t) - 3 : SubSeq(t, i + 1, i + 3) = Separator}
<1>1. n - 1 \in c .. Len(t) - 3 /\ (n - 1) + 1 = n /\ (n - 1) + 3 = n + 2
  OBVIOUS
<1>2. SubSeq(t, n, n + 2) = Separator
  BY SeparatorIs
<1>3. offsets \in SUBSET Nat /\ n - 1 \in offsets
  BY <1>1, <1>2
<1>4. \E i \in offsets : \A j \in offsets : i <= j
  BY <1>3, LeastOf
<1> QED
  BY <1>4 DEF FindSeparator

\* The walk back takes the whole run of characters of a scheme.
LEMMA StartIs ==
  ASSUME NEW t \in Seq(Characters), NEW s \in 0 .. Len(t)
  PROVE  \E run \in 0 .. s :
           /\ \A n \in run + 1 .. s : t[n] \in SchemeChars
           /\ run = 0 \/ t[run] \notin SchemeChars
           /\ SchemeStart(t, s) = IF run < s /\ t[run + 1] \in Letters THEN run ELSE s
<1> DEFINE P(r) == /\ \A n \in r + 1 .. s : t[n] \in SchemeChars
                   /\ r = 0 \/ t[r] \notin SchemeChars
           runs == {r \in 0 .. s : \A n \in r + 1 .. s : t[n] \in SchemeChars}
<1>1. runs \in SUBSET Nat /\ s \in runs
  OBVIOUS
<1>2. PICK r \in runs : \A q \in runs : r <= q
  BY <1>1, LeastOf
<1>3. ASSUME r # 0, t[r] \in SchemeChars
      PROVE  FALSE
  <2>1. r - 1 \in 0 .. s /\ \A n \in (r - 1) + 1 .. s : n = r \/ n \in r + 1 .. s
    BY <1>2, <1>3
  <2>2. r - 1 \in runs
    BY <2>1, <1>2, <1>3
  <2> QED
    BY <2>2, <1>2
<1>4. \E q \in 0 .. s : P(q)
  BY <1>2, <1>3
<1>5. (CHOOSE q \in 0 .. s : P(q)) \in 0 .. s /\ P(CHOOSE q \in 0 .. s : P(q))
  BY <1>4
<1> QED
  BY <1>5 DEF SchemeStart

\* An authority ends before the first delimiter.
LEMMA EndIs ==
  ASSUME NEW t \in Seq(Characters), NEW from \in 0 .. Len(t)
  PROVE  /\ AuthorityEnd(t, from) \in from .. Len(t)
         /\ \A n \in from + 1 .. AuthorityEnd(t, from) : t[n] \notin Delimiters
         /\ AuthorityEnd(t, from) = Len(t) \/ t[AuthorityEnd(t, from) + 1] \in Delimiters
<1> DEFINE P(e) == /\ \A n \in from + 1 .. e : ~EndsAuthority(t[n])
                   /\ e = Len(t) \/ EndsAuthority(t[e + 1])
           ends == {e \in from .. Len(t) : \A n \in from + 1 .. e : ~EndsAuthority(t[n])}
<1>1. ends \in SUBSET (0 .. Len(t)) /\ from \in ends
  OBVIOUS
<1>2. PICK e \in ends : \A f \in ends : f <= e
  <2>1. Len(t) \in Nat
    OBVIOUS
  <2> HIDE DEF ends
  <2> QED
    BY <1>1, <2>1, GreatestOf
<1>3. ASSUME e # Len(t), ~EndsAuthority(t[e + 1])
      PROVE  FALSE
  <2>1. e + 1 \in from .. Len(t) /\ \A n \in from + 1 .. e + 1 : n = e + 1 \/ n \in from + 1 .. e
    BY <1>2, <1>3
  <2>2. e + 1 \in ends
    BY <2>1, <1>2, <1>3
  <2> QED
    BY <2>2, <1>2
<1>4. \E f \in from .. Len(t) : P(f)
  BY <1>2, <1>3
<1>5. LET f == CHOOSE f \in from .. Len(t) : P(f) IN f \in from .. Len(t) /\ P(f)
  BY <1>4
<1> QED
  BY <1>5 DEF AuthorityEnd, EndsAuthority

\* The host alone, or with a port of one digit at least.
TargetShape(a) ==
  /\ Len(a) >= 1 /\ a[1] = "B"
  /\ \/ Len(a) = 1
     \/ Len(a) >= 3 /\ a[2] = ":" /\ \A n \in 3 .. Len(a) : a[n] = "9"

LEMMA HostAlone ==
  ASSUME NEW a \in Seq(Characters)
  PROVE  a = <<"B">> <=> Len(a) = 1 /\ a[1] = "B"
<1>1. "B" \in Characters
  BY DEF Characters, SchemeChars
<1>2. <<"B">> \in Seq(Characters) /\ Len(<<"B">>) = 1 /\ <<"B">>[1] = "B"
  BY <1>1
<1>3. ASSUME Len(a) = 1, a[1] = "B"
      PROVE  a = <<"B">>
  <2>1. \A i \in 1 .. 1 : a[i] = <<"B">>[i]
    BY <1>2, <1>3
  <2> HIDE <1>3
  <2> QED
    BY <2>1, <1>2, <1>3, SeqEqual
<1> QED
  BY <1>2, <1>3

\* is_target is true of what begins with the host and ends there or with a port.
LEMMA TargetIs ==
  ASSUME NEW a \in Seq(Characters)
  PROVE  IsTarget(a) <=> TargetShape(a)
<1> DEFINE colons == {i \in DOMAIN a : a[i] = ":"}
           last == CHOOSE i \in colons : \A j \in colons : j <= i
           ported == /\ colons # {} /\ last < Len(a)
                     /\ \A i \in last + 1 .. Len(a) : a[i] = "9"
<1>1. Len(a) \in Nat /\ DOMAIN a = 1 .. Len(a)
  OBVIOUS
<1>2. IsTarget(a) = IF ported THEN SubSeq(a, 1, last - 1) = <<"B">> ELSE a = <<"B">>
  BY DEF IsTarget
<1>3. ASSUME colons # {}
      PROVE  last \in colons /\ \A j \in colons : j <= last
  <2>1. colons \in SUBSET (0 .. Len(a))
    BY <1>1
  <2>2. \E i \in colons : \A j \in colons : j <= i
    <3> HIDE DEF colons
    <3> QED
      BY <1>1, <1>3, <2>1, GreatestOf
  <2> QED
    BY <2>2
<1>4. last \in colons => last \in 1 .. Len(a) /\ a[last] = ":"
  BY <1>1
<1>5. ":" # "B" /\ ":" # "9"
  OBVIOUS
<1>6. CASE ported
  <2>1. last \in 1 .. Len(a) - 1 /\ a[last] = ":" /\ \A j \in colons : j <= last
    BY <1>1, <1>3, <1>4, <1>6
  <2>2. \A i \in 1 .. last - 1 : a[i] \in Characters
    BY <1>1, <2>1
  <2>3. /\ SubSeq(a, 1, last - 1) \in Seq(Characters)
        /\ Len(SubSeq(a, 1, last - 1)) = last - 1
        /\ \A i \in 1 .. last - 1 : SubSeq(a, 1, last - 1)[i] = a[i]
    <3> HIDE DEF last
    <3>1. last - 1 \in Int /\ (1 <= last - 1 => (last - 1) - 1 + 1 = last - 1)
      BY <2>1
    <3>2. /\ SubSeq(a, 1, last - 1) \in Seq(Characters)
          /\ Len(SubSeq(a, 1, last - 1)) = IF 1 <= last - 1 THEN (last - 1) - 1 + 1 ELSE 0
          /\ \A i \in 1 .. (last - 1) - 1 + 1 : SubSeq(a, 1, last - 1)[i] = a[1 + i - 1]
      BY <2>2, <3>1, SubSeqProperties
    <3> QED
      BY <3>2, <2>1
  <2>4. SubSeq(a, 1, last - 1) = <<"B">> <=> last = 2 /\ a[1] = "B"
    <3> HIDE DEF last
    <3>1. SubSeq(a, 1, last - 1) = <<"B">> <=> last - 1 = 1 /\ SubSeq(a, 1, last - 1)[1] = "B"
      BY <2>3, HostAlone
    <3> QED
      BY <3>1, <2>1, <2>3
  <2>5. IsTarget(a) <=> last = 2 /\ a[1] = "B"
    BY <1>2, <1>6, <2>4
  <2>6. ASSUME last = 2, a[1] = "B"
        PROVE  TargetShape(a)
    <3>1. \A i \in last + 1 .. Len(a) : a[i] = "9"
      BY <1>6
    <3> HIDE DEF last, ported
    <3>2. Len(a) >= 3 /\ a[2] = ":" /\ \A i \in 3 .. Len(a) : a[i] = "9"
      BY <3>1, <2>1, <2>6, <1>1
    <3> QED
      BY <3>2, <2>6 DEF TargetShape
  <2>7. ASSUME TargetShape(a)
        PROVE  last = 2 /\ a[1] = "B"
    <3>1. a[1] = "B" /\ last # 1
      BY <2>1, <2>7, <1>5 DEF TargetShape
    <3>2. \A n \in 3 .. Len(a) : a[n] = "9"
      BY <2>7, <1>1 DEF TargetShape
    <3> QED
      BY <3>1, <3>2, <2>1, <1>5
  <2> QED
    BY <2>5, <2>6, <2>7
<1>7. CASE ~ported
  <2>1. IsTarget(a) <=> Len(a) = 1 /\ a[1] = "B"
    BY <1>2, <1>7, HostAlone
  <2>2. ASSUME TargetShape(a), Len(a) # 1
        PROVE  FALSE
    <3>1. Len(a) >= 3 /\ a[1] = "B" /\ a[2] = ":" /\ \A n \in 3 .. Len(a) : a[n] = "9"
      BY <2>2 DEF TargetShape
    <3>2. 2 \in colons /\ \A i \in colons : i = 2
      BY <3>1, <1>1, <1>5
    <3>3. last = 2
      BY <3>2, <1>3
    <3> QED
      BY <3>1, <3>2, <3>3, <1>7
  <2> QED
    BY <2>1, <2>2, <1>1 DEF TargetShape
<1> QED
  BY <1>6, <1>7

\* What is_target says of an authority is what NamesTarget says of its place.
LEMMA TargetNamed ==
  ASSUME NEW t \in Seq(Characters), NEW j \in 1 .. Len(t) + 1, NEW e \in j - 1 .. Len(t),
         \A n \in j .. e : t[n] \notin Delimiters, e = Len(t) \/ t[e + 1] \in Delimiters
  PROVE  IsTarget(SubSeq(t, j, e)) <=> NamesTarget(t, j)
<1> DEFINE a == SubSeq(t, j, e)
<1>1. /\ a \in Seq(Characters)
      /\ Len(a) = (e - j) + 1
      /\ \A n \in j .. e : a[(n - j) + 1] = t[n]
  <2>1. j \in Int /\ e \in Int /\ \A i \in j .. e : t[i] \in Characters
    OBVIOUS
  <2>2. /\ a \in Seq(Characters)
        /\ Len(a) = IF j <= e THEN e - j + 1 ELSE 0
        /\ \A i \in 1 .. e - j + 1 : a[i] = t[j + i - 1]
    BY <2>1, SubSeqProperties
  <2>3. \A n \in j .. e : (n - j) + 1 \in 1 .. e - j + 1 /\ j + ((n - j) + 1) - 1 = n
    OBVIOUS
  <2> QED
    BY <2>2, <2>3
<1> HIDE DEF a
<1>2. IsTarget(a) <=> TargetShape(a)
  BY <1>1, TargetIs
<1>3. "B" \notin Delimiters /\ ":" \notin Delimiters /\ "9" \notin Delimiters
  BY DEF Delimiters
<1>4. ASSUME TargetShape(a)
      PROVE  NamesTarget(t, j)
  <2>1. e >= j /\ t[j] = "B"
    BY <1>1, <1>4 DEF TargetShape
  <2>2. CASE Len(a) = 1
    <3>1. e = j /\ e \in j .. Len(t) /\ j <= Len(t)
      <4>1. 1 = (e - j) + 1
        BY <1>1, <2>2
      <4>2. e = j
        BY <4>1
      <4>3. j <= Len(t)
        BY <4>2
      <4> QED
        BY <4>2, <4>3
    <3> QED
      BY <2>1, <3>1 DEF NamesTarget
  <2>3. CASE Len(a) # 1
    <3>1. Len(a) >= 3 /\ a[2] = ":" /\ \A n \in 3 .. Len(a) : a[n] = "9"
      BY <1>4, <2>3 DEF TargetShape
    <3>2. e > j + 1 /\ t[j + 1] = ":"
      BY <1>1, <3>1
    <3>3. ASSUME NEW n \in j + 2 .. e
          PROVE  t[n] = "9"
      <4>1. PICK k \in 3 .. Len(a) : k = (n - j) + 1
        BY <1>1
      <4>2. a[k] = "9"
        BY <3>1, <4>1
      <4>3. n \in j .. e
        OBVIOUS
      <4> QED
        BY <4>1, <4>2, <4>3, <1>1
    <3> QED
      BY <2>1, <3>2, <3>3 DEF NamesTarget
  <2> QED
    BY <2>2, <2>3
<1>5. ASSUME NamesTarget(t, j)
      PROVE  TargetShape(a)
  <2>1. PICK end \in j .. Len(t) :
          /\ end = Len(t) \/ t[end + 1] \in Delimiters
          /\ \/ end = j
             \/ end > j + 1 /\ t[j + 1] = ":" /\ \A n \in j + 2 .. end : t[n] = "9"
    BY <1>5 DEF NamesTarget
  <2>2. t[j] = "B" /\ j <= Len(t)
    BY <1>5 DEF NamesTarget
  <2>3. \A n \in j .. end : t[n] \notin Delimiters
    BY <2>1, <2>2, <1>3
  <2>4. end = e
    BY <2>1, <2>3
  <2>5. CASE end = j
    BY <1>1, <2>2, <2>4, <2>5 DEF TargetShape
  <2>6. CASE end # j
    <3>1. Len(a) >= 3 /\ a[1] = "B" /\ a[2] = ":"
      BY <1>1, <2>1, <2>2, <2>4, <2>6
    <3>2. ASSUME NEW n \in 3 .. Len(a)
          PROVE  a[n] = "9"
      <4>1. PICK k \in j + 2 .. e : k = (n + j) - 1
        BY <1>1
      <4>2. t[k] = "9"
        BY <4>1, <2>1, <2>4, <2>6
      <4>3. k \in j .. e /\ (k - j) + 1 = n
        BY <4>1
      <4> QED
        BY <4>2, <4>3, <1>1
    <3> QED
      BY <3>1, <3>2 DEF TargetShape
  <2> QED
    BY <2>5, <2>6
<1> QED
  BY <1>2, <1>4, <1>5 DEF a

-----------------------------------------------------------------------------
(* Links and their places in a text.                                       *)

UrlShape(t, i, j) ==
  /\ t[i] \in Letters
  /\ i > 1 => t[i - 1] \notin SchemeChars
  /\ i < j - 3 /\ SeparatorAt(t, j - 3)
  /\ \A n \in i .. j - 4 : t[n] \in SchemeChars

\* The three characters before an authority say that a URL begins, and conversely.
LEMMA UrlIs ==
  ASSUME NEW t \in Seq(Characters), NEW i \in 1 .. Len(t) + 1, NEW j \in 1 .. Len(t) + 1
  PROVE  UrlAt(t, i, j) <=> UrlShape(t, i, j)
<1>1. CASE i < j - 3
  <2>1. PICK n \in 1 .. Len(t) - 2 : n = j - 3
    BY <1>1
  <2>2. n + 2 = j - 1
    BY <2>1
  <2>3. SubSeq(t, n, n + 2) = Separator <=> SeparatorAt(t, n)
    BY SeparatorIs
  <2>4. SubSeq(t, j - 3, j - 1) = Separator <=> SeparatorAt(t, j - 3)
    BY <2>1, <2>2, <2>3
  <2> QED
    BY <2>4 DEF UrlAt, UrlShape
<1>2. CASE ~(i < j - 3)
  BY <1>2 DEF UrlAt, UrlShape
<1> QED
  BY <1>1, <1>2

\* Where a link begins, and what it stands in, is decided by what comes before
\* the end of its separator.
LEMMA OfAPrefix ==
  ASSUME NEW u \in Seq(Characters), NEW v \in Seq(Characters),
         NEW m \in Nat, m <= Len(u), m <= Len(v), \A n \in 1 .. m : u[n] = v[n],
         NEW i \in 1 .. m + 1
  PROVE  /\ \A j \in 1 .. m + 1 : UrlAt(u, i, j) => UrlAt(v, i, j)
         /\ Buried(u, i) => Buried(v, i)
<1>1. ASSUME NEW h \in 1 .. m + 1, NEW j \in 1 .. m + 1, UrlAt(u, h, j)
      PROVE  UrlAt(v, h, j)
  <2>1. /\ h \in 1 .. Len(u) + 1 /\ j \in 1 .. Len(u) + 1
        /\ h \in 1 .. Len(v) + 1 /\ j \in 1 .. Len(v) + 1
    OBVIOUS
  <2>2. UrlShape(u, h, j)
    BY <1>1, <2>1, UrlIs
  <2>3. /\ u[h] = v[h] /\ (h > 1 => u[h - 1] = v[h - 1])
        /\ \A n \in h .. j - 4 : u[n] = v[n]
        /\ SeparatorAt(v, j - 3)
    BY <2>2 DEF UrlShape, SeparatorAt
  <2>4. UrlShape(v, h, j)
    BY <2>2, <2>3 DEF UrlShape
  <2> QED
    BY <2>1, <2>4, UrlIs
<1>2. ASSUME Buried(u, i)
      PROVE  Buried(v, i)
  <2>1. PICK h \in 1 .. i - 1 : \E j \in h .. i :
          UrlAt(u, h, j) /\ \A n \in j .. i - 1 : u[n] \notin Delimiters
    BY <1>2 DEF Buried
  <2>2. PICK j \in h .. i : UrlAt(u, h, j) /\ \A n \in j .. i - 1 : u[n] \notin Delimiters
    BY <2>1
  <2>3. h \in 1 .. m + 1 /\ j \in 1 .. m + 1
    OBVIOUS
  <2>4. UrlAt(v, h, j)
    BY <1>1, <2>2, <2>3
  <2>5. \A n \in j .. i - 1 : v[n] \notin Delimiters
    BY <2>2, <2>3
  <2> QED
    BY <2>4, <2>5 DEF Buried
<1> QED
  BY <1>1, <1>2

\* What is written, followed by what is left to read.
Whole(t, c, w) == w \o SubSeq(t, c + 1, Len(t))

LEMMA RestIs ==
  ASSUME NEW t \in Seq(Characters), NEW c \in 0 .. Len(t), NEW d \in c .. Len(t)
  PROVE  /\ SubSeq(t, c + 1, d) \in Seq(Characters)
         /\ Len(SubSeq(t, c + 1, d)) = d - c
         /\ \A n \in 1 .. d - c : SubSeq(t, c + 1, d)[n] = t[n + c]
<1>1. c + 1 \in Int /\ d \in Int /\ \A i \in c + 1 .. d : t[i] \in Characters
  OBVIOUS
<1>2. /\ SubSeq(t, c + 1, d) \in Seq(Characters)
      /\ Len(SubSeq(t, c + 1, d)) = IF c + 1 <= d THEN d - (c + 1) + 1 ELSE 0
      /\ \A i \in 1 .. d - (c + 1) + 1 : SubSeq(t, c + 1, d)[i] = t[(c + 1) + i - 1]
  BY <1>1, SubSeqProperties
<1>3. (IF c + 1 <= d THEN d - (c + 1) + 1 ELSE 0) = d - c
  OBVIOUS
<1>4. \A n \in 1 .. d - c : n \in 1 .. d - (c + 1) + 1 /\ (c + 1) + n - 1 = n + c
  OBVIOUS
<1> QED
  BY <1>2, <1>3, <1>4

\* What is written followed by what is left to read is a text, of both lengths.
LEMMA WholeIs ==
  ASSUME NEW t \in Seq(Characters), NEW c \in 0 .. Len(t), NEW w \in Seq(Characters)
  PROVE  /\ Whole(t, c, w) \in Seq(Characters)
         /\ Len(Whole(t, c, w)) = Len(w) + (Len(t) - c)
         /\ \A n \in 1 .. Len(w) : Whole(t, c, w)[n] = w[n]
         /\ \A n \in c + 1 .. Len(t) : Whole(t, c, w)[Len(w) + (n - c)] = t[n]
<1>1. PICK rest \in Seq(Characters) :
        /\ rest = SubSeq(t, c + 1, Len(t))
        /\ Len(rest) = Len(t) - c
        /\ \A n \in 1 .. Len(t) - c : rest[n] = t[n + c]
  <2>1. Len(t) \in c .. Len(t)
    OBVIOUS
  <2> QED
    BY <2>1, RestIs
<1>2. /\ w \o rest \in Seq(Characters)
      /\ Len(w \o rest) = Len(w) + Len(rest)
      /\ \A n \in 1 .. Len(w) + Len(rest) :
           (w \o rest)[n] = IF n <= Len(w) THEN w[n] ELSE rest[n - Len(w)]
  BY ConcatProperties
<1>3. Whole(t, c, w) = w \o rest
  BY <1>1 DEF Whole
<1>4. ASSUME NEW n \in c + 1 .. Len(t)
      PROVE  (w \o rest)[Len(w) + (n - c)] = t[n]
  <2>1. n - c \in 1 .. Len(t) - c /\ (n - c) + c = n /\ Len(t) - c \in Nat
    OBVIOUS
  <2>2. rest[n - c] = t[n]
    BY <1>1, <2>1
  <2>3. Len(w) \in Nat /\ Len(rest) = Len(t) - c
    BY <1>1
  <2>4. PICK k \in 1 .. Len(w) + Len(rest) : k = Len(w) + (n - c)
    <3>1. PICK d \in 1 .. Len(rest) : d = n - c
      BY <2>1, <2>3
    <3>2. Len(w) + d \in 1 .. Len(w) + Len(rest)
      BY <2>1, <2>3
    <3> QED
      BY <3>1, <3>2
  <2>5. ~(k <= Len(w)) /\ k - Len(w) = n - c
    BY <2>1, <2>3, <2>4
  <2> QED
    BY <1>2, <2>2, <2>4, <2>5
<1>5. \A n \in 1 .. Len(w) : (w \o rest)[n] = w[n]
  <2>1. Len(w) \in Nat /\ Len(rest) \in Nat
    BY <1>1
  <2> QED
    BY <1>2, <2>1
<1> QED
  BY <1>1, <1>2, <1>3, <1>4, <1>5

-----------------------------------------------------------------------------
(* One turn of the loop.                                                   *)

\* The cursor and the end of what is written stand where no scheme goes on.
Cut(t, c) == c = Len(t) \/ t[c + 1] \in Delimiters
AtEdge(t, c, w) ==
  /\ c = 0 \/ t[c] \notin SchemeChars \/ Cut(t, c)
  /\ Len(w) = 0 \/ w[Len(w)] \notin SchemeChars \/ Cut(t, c)

\* No character of a scheme is a delimiter or a colon.
LEMMA Kinds ==
  /\ Letters \subseteq SchemeChars /\ SchemeChars \cap Delimiters = {}
  /\ ":" \notin SchemeChars \cup Delimiters
  /\ "/" \in Delimiters /\ "B" \notin Letters /\ "P" \in Letters /\ "x" \in Letters
  /\ "P" # "B" /\ "x" \notin {"B", "9", ":", "/"}
BY DEF Letters, SchemeChars, Delimiters

\* The walk back over a scheme does not pass the cursor.
LEMMA StartInOrder ==
  ASSUME NEW t \in Seq(Characters), NEW c \in 0 .. Len(t), NEW w \in Seq(Characters),
         AtEdge(t, c, w), NEW s \in FindSeparator(t, c)
  PROVE  \E run \in c .. s :
           /\ \A n \in run + 1 .. s : t[n] \in SchemeChars
           /\ run = 0 \/ t[run] \notin SchemeChars
           /\ SchemeStart(t, s) = IF run < s /\ t[run + 1] \in Letters THEN run ELSE s
<1>1. s \in c .. Len(t) - 3 /\ t[s + 1] = ":"
  BY FoundIs DEF SeparatorAt
<1>2. s \in 0 .. Len(t)
  BY <1>1
<1>3. PICK run \in 0 .. s :
        /\ \A n \in run + 1 .. s : t[n] \in SchemeChars
        /\ run = 0 \/ t[run] \notin SchemeChars
        /\ SchemeStart(t, s) = IF run < s /\ t[run + 1] \in Letters THEN run ELSE s
  BY <1>2, StartIs
<1>4. ASSUME run < c
      PROVE  FALSE
  <2>1. c \in run + 1 .. s /\ c # 0 /\ c # Len(t)
    BY <1>1, <1>4
  <2>2. t[c + 1] \in Delimiters
    BY <2>1, <1>3 DEF AtEdge, Cut
  <2>3. c + 1 \in run + 1 .. s \/ c = s
    <3>1. run \in Nat /\ s \in Nat /\ c \in Nat
      BY <1>1
    <3> QED
      BY <2>1, <3>1
  <2> QED
    BY <2>2, <2>3, <1>1, <1>3, Kinds
<1> QED
  BY <1>1, <1>3, <1>4

\* Where the text before the separator stands in the whole, and the separator.
LEMMA WholeAhead ==
  ASSUME NEW t \in Seq(Characters), NEW c \in 0 .. Len(t), NEW w \in Seq(Characters),
         NEW s \in FindSeparator(t, c)
  PROVE  /\ SeparatorAt(Whole(t, c, w), Len(w) + (s - c) + 1)
         /\ \A p \in Len(w) + 1 .. Len(w) + (Len(t) - c) - 2 :
              SeparatorAt(Whole(t, c, w), p) => p >= Len(w) + (s - c) + 1
<1>1. /\ s \in c .. Len(t) - 3
      /\ SeparatorAt(t, s + 1)
      /\ \A n \in c + 1 .. s : ~SeparatorAt(t, n)
  BY FoundIs
<1>2. PICK v \in Seq(Characters), l \in Nat :
        /\ v = Whole(t, c, w) /\ l = Len(w)
        /\ \A n \in c + 1 .. Len(t) : v[l + (n - c)] = t[n]
  <2>1. Len(w) \in Nat
    OBVIOUS
  <2>2. /\ Whole(t, c, w) \in Seq(Characters)
        /\ \A n \in c + 1 .. Len(t) : Whole(t, c, w)[Len(w) + (n - c)] = t[n]
    BY WholeIs, Zenon
  <2> QED
    BY <2>1, <2>2, Zenon
<1>3. ASSUME NEW n \in c + 1 .. Len(t) - 2
      PROVE  SeparatorAt(v, l + (n - c)) <=> SeparatorAt(t, n)
  <2>1. n \in c + 1 .. Len(t) /\ n + 1 \in c + 1 .. Len(t) /\ n + 2 \in c + 1 .. Len(t)
    BY <1>3
  <2>2. /\ (l + (n - c)) + 1 = l + ((n + 1) - c)
        /\ (l + (n - c)) + 2 = l + ((n + 2) - c)
    BY <1>3
  <2> QED
    BY <2>1, <2>2, <1>2 DEF SeparatorAt
<1>4. SeparatorAt(v, l + (s - c) + 1)
  <2>1. s + 1 \in c + 1 .. Len(t) - 2 /\ l + ((s + 1) - c) = l + (s - c) + 1
    BY <1>1
  <2> QED
    BY <2>1, <1>1, <1>3
<1>5. ASSUME NEW p \in l + 1 .. l + (Len(t) - c) - 2, SeparatorAt(v, p)
      PROVE  p >= l + (s - c) + 1
  <2>1. PICK n \in c + 1 .. Len(t) - 2 : n = p - l + c
    BY <1>5
  <2>2. l + (n - c) = p
    BY <2>1
  <2>3. SeparatorAt(t, n)
    BY <2>2, <1>3, <1>5
  <2>4. ~(n <= s)
    BY <2>3, <1>1
  <2> QED
    BY <2>1, <2>4, <1>1
<1> QED
  BY <1>2, <1>4, <1>5

\* What the characters left to read are in the whole.
LEMMA WholeAfter ==
  ASSUME NEW t \in Seq(Characters), NEW c \in 0 .. Len(t), NEW w \in Seq(Characters)
  PROVE  \E l \in Nat, v \in Seq(Characters) :
           /\ l = Len(w) /\ v = Whole(t, c, w)
           /\ Len(v) = l + (Len(t) - c)
           /\ \A n \in 1 .. l : v[n] = w[n]
           /\ \A n \in c + 1 .. Len(t) : v[l + (n - c)] = t[n]
<1>1. Len(w) \in Nat
  OBVIOUS
<1>2. /\ Whole(t, c, w) \in Seq(Characters)
      /\ Len(Whole(t, c, w)) = Len(w) + (Len(t) - c)
      /\ \A n \in 1 .. Len(w) : Whole(t, c, w)[n] = w[n]
      /\ \A n \in c + 1 .. Len(t) : Whole(t, c, w)[Len(w) + (n - c)] = t[n]
  BY WholeIs, Zenon
<1> QED
  BY <1>1, <1>2, Zenon

\* Between the end of what is written and the separator a link begins only where
\* the scheme does, and its separator is that one.
LEMMA OneLinkAhead ==
  ASSUME NEW t \in Seq(Characters), NEW c \in 0 .. Len(t), NEW w \in Seq(Characters),
         AtEdge(t, c, w), NEW s \in FindSeparator(t, c),
         NEW i \in Len(w) + 1 .. Len(w) + (s - c), NEW j \in 1 .. Len(Whole(t, c, w)) + 1,
         UrlAt(Whole(t, c, w), i, j)
  PROVE  /\ SchemeStart(t, s) < s
         /\ i = Len(w) + (SchemeStart(t, s) - c) + 1
         /\ j = Len(w) + (s - c) + 4
<1>1. PICK l \in Nat, v \in Seq(Characters) :
        /\ l = Len(w) /\ v = Whole(t, c, w)
        /\ Len(v) = l + (Len(t) - c)
        /\ \A n \in 1 .. l : v[n] = w[n]
        /\ \A n \in c + 1 .. Len(t) : v[l + (n - c)] = t[n]
  BY WholeAfter
<1>2. s \in c .. Len(t) - 3
  BY FoundIs
<1>3. /\ SeparatorAt(v, l + (s - c) + 1)
      /\ \A p \in l + 1 .. l + (Len(t) - c) - 2 :
           SeparatorAt(v, p) => p >= l + (s - c) + 1
  BY <1>1, WholeAhead
<1>4. i \in l + 1 .. l + (s - c) /\ j \in 1 .. Len(v) + 1
  BY <1>1
<1>5. UrlShape(v, i, j)
  <2>1. i \in 1 .. Len(v) + 1 /\ UrlAt(v, i, j)
    BY <1>1, <1>2, <1>4
  <2> QED
    BY <2>1, <1>4, UrlIs
<1>6. j = l + (s - c) + 4
  <2>1. v[l + (s - c) + 1] = ":"
    BY <1>3 DEF SeparatorAt
  <2>2. l + (s - c) + 1 \notin i .. j - 4
    BY <2>1, <1>5, Kinds DEF UrlShape
  <2>3. j <= l + (s - c) + 4
    BY <2>2, <1>2, <1>4
  <2>4. j - 3 \in l + 1 .. l + (Len(t) - c) - 2
    BY <1>1, <1>2, <1>4, <1>5 DEF UrlShape
  <2>5. j - 3 >= l + (s - c) + 1
    BY <2>4, <1>3, <1>5 DEF UrlShape
  <2> QED
    BY <2>3, <2>5, <1>2, <1>4
<1>7. PICK run \in c .. s :
        /\ \A n \in run + 1 .. s : t[n] \in SchemeChars
        /\ run = 0 \/ t[run] \notin SchemeChars
        /\ SchemeStart(t, s) = IF run < s /\ t[run + 1] \in Letters THEN run ELSE s
  BY StartInOrder
<1>8. PICK k \in c + 1 .. s : i = l + (k - c)
  <2>1. (i - l) + c \in c + 1 .. s /\ i = l + (((i - l) + c) - c)
    BY <1>2, <1>4
  <2> QED
    BY <2>1
<1>9. \A n \in k .. s : t[n] \in SchemeChars
  <2>1. ASSUME NEW n \in k .. s
        PROVE  t[n] \in SchemeChars
    <3>1. l + (n - c) \in i .. j - 4 /\ n \in c + 1 .. Len(t)
      BY <1>2, <1>6, <1>8
    <3> QED
      BY <3>1, <1>1, <1>5 DEF UrlShape
  <2> QED
    BY <2>1
<1>10. k >= run + 1
  <2>1. ASSUME k <= run
        PROVE  FALSE
    <3>1. run \in k .. s /\ run # 0
      BY <1>2, <1>7, <1>8, <2>1
    <3> QED
      BY <3>1, <1>7, <1>9
  <2> QED
    BY <2>1, <1>2, <1>7, <1>8
<1>11. k = run + 1
  <2>1. ASSUME k > run + 1
        PROVE  FALSE
    <3>1. k - 1 \in run + 1 .. s /\ k - 1 \in c + 1 .. Len(t)
      BY <1>2, <1>7, <1>8, <2>1
    <3>2. l + ((k - 1) - c) = i - 1 /\ i > 1
      BY <1>2, <1>7, <1>8, <2>1
    <3>3. v[i - 1] \in SchemeChars
      BY <3>1, <3>2, <1>1, <1>7
    <3> QED
      BY <3>2, <3>3, <1>5 DEF UrlShape
  <2> QED
    BY <2>1, <1>2, <1>7, <1>8, <1>10
<1>12. t[run + 1] \in Letters
  <2>1. k \in c + 1 .. Len(t)
    BY <1>2, <1>8
  <2>2. v[i] = t[k]
    BY <2>1, <1>1, <1>8
  <2> QED
    BY <2>2, <1>5, <1>11 DEF UrlShape
<1>13. run < s
  BY <1>2, <1>7, <1>8, <1>11
<1>14. SchemeStart(t, s) = run
  BY <1>7, <1>12, <1>13
<1>15. i = l + (run - c) + 1
  BY <1>2, <1>7, <1>8, <1>11
<1> QED
  BY <1>1, <1>6, <1>13, <1>14, <1>15

\* A scheme that begins with a letter makes a link of what the turn is at.
LEMMA LinkAhead ==
  ASSUME NEW t \in Seq(Characters), NEW c \in 0 .. Len(t), NEW w \in Seq(Characters),
         AtEdge(t, c, w), NEW s \in FindSeparator(t, c), SchemeStart(t, s) < s
  PROVE  /\ SchemeStart(t, s) \in c .. s - 1
         /\ UrlAt(t, SchemeStart(t, s) + 1, s + 4)
         /\ UrlAt(Whole(t, c, w), Len(w) + (SchemeStart(t, s) - c) + 1, Len(w) + (s - c) + 4)
<1>1. PICK l \in Nat, v \in Seq(Characters) :
        /\ l = Len(w) /\ v = Whole(t, c, w)
        /\ Len(v) = l + (Len(t) - c)
        /\ \A n \in 1 .. l : v[n] = w[n]
        /\ \A n \in c + 1 .. Len(t) : v[l + (n - c)] = t[n]
  BY WholeAfter
<1>2. s \in c .. Len(t) - 3 /\ SeparatorAt(t, s + 1)
  BY FoundIs
<1>3. SeparatorAt(v, l + (s - c) + 1)
  BY <1>1, WholeAhead
<1>4. PICK run \in c .. s :
        /\ \A n \in run + 1 .. s : t[n] \in SchemeChars
        /\ run = 0 \/ t[run] \notin SchemeChars
        /\ SchemeStart(t, s) = IF run < s /\ t[run + 1] \in Letters THEN run ELSE s
  BY StartInOrder
<1>5. SchemeStart(t, s) = run /\ run < s /\ t[run + 1] \in Letters
  BY <1>2, <1>4
<1>6. UrlAt(t, run + 1, s + 4)
  <2>1. run + 1 \in 1 .. Len(t) + 1 /\ s + 4 \in 1 .. Len(t) + 1
    BY <1>2, <1>5
  <2>2. (s + 4) - 3 = s + 1 /\ (s + 4) - 4 = s /\ (run + 1) - 1 = run /\ run + 1 < s + 1
    BY <1>2, <1>5
  <2>3. run + 1 > 1 => t[run] \notin SchemeChars
    BY <1>4
  <2>4. UrlShape(t, run + 1, s + 4)
    BY <2>2, <2>3, <1>2, <1>4, <1>5 DEF UrlShape
  <2> QED
    BY <2>1, <2>4, UrlIs
<1>7. PICK i \in 1 .. Len(v) + 1, j \in 1 .. Len(v) + 1 :
        i = l + (run - c) + 1 /\ j = l + (s - c) + 4
  <2>1. l + (run - c) + 1 \in 1 .. Len(v) + 1 /\ l + (s - c) + 4 \in 1 .. Len(v) + 1
    <3>1. /\ run - c \in Nat /\ s - c \in Nat /\ Len(t) - c \in Nat
          /\ run - c < s - c /\ s - c <= (Len(t) - c) - 3
      BY <1>2, <1>5
    <3> QED
      BY <1>1, <3>1
  <2> QED
    BY <2>1
<1>8. \A n \in i .. j - 4 : v[n] \in SchemeChars
  <2>1. ASSUME NEW n \in i .. j - 4
        PROVE  v[n] \in SchemeChars
    <3>1. PICK k \in run + 1 .. s : n = l + (k - c)
      <4>1. (n - l) + c \in run + 1 .. s /\ n = l + (((n - l) + c) - c)
        BY <1>2, <1>5, <1>7
      <4> QED
        BY <4>1
    <3>2. k \in c + 1 .. Len(t)
      BY <3>1, <1>2, <1>5
    <3> QED
      BY <3>1, <3>2, <1>1, <1>4
  <2> QED
    BY <2>1
<1>9. v[i] \in Letters
  <2>1. run + 1 \in c + 1 .. Len(t) /\ l + ((run + 1) - c) = i
    BY <1>2, <1>5, <1>7
  <2> QED
    BY <2>1, <1>1, <1>5
<1>10. i > 1 => v[i - 1] \notin SchemeChars
  <2>1. CASE run > c
    <3>1. run \in c + 1 .. Len(t) /\ l + (run - c) = i - 1 /\ run # 0
      BY <2>1, <1>2, <1>5, <1>7
    <3> QED
      BY <3>1, <1>1, <1>4
  <2>2. CASE run = c
    <3>1. c # Len(t) /\ t[c + 1] \notin Delimiters
      BY <2>2, <1>2, <1>5, Kinds
    <3>2. Len(w) = 0 \/ w[Len(w)] \notin SchemeChars
      BY <3>1 DEF AtEdge, Cut
    <3>3. i - 1 = l
      BY <2>2, <1>2, <1>5, <1>7
    <3>4. i > 1 => l \in 1 .. l
      BY <3>3
    <3> QED
      BY <3>2, <3>3, <3>4, <1>1
  <2> QED
    BY <2>1, <2>2, <1>4
<1>11. i < j - 3 /\ j - 3 = l + (s - c) + 1
  BY <1>2, <1>5, <1>7
<1>12. UrlShape(v, i, j)
  BY <1>3, <1>8, <1>9, <1>10, <1>11 DEF UrlShape
<1>13. UrlAt(v, i, j)
  BY <1>7, <1>12, UrlIs
<1> QED
  BY <1>1, <1>2, <1>5, <1>6, <1>7, <1>13

\* An authority in what is left to read names the BMC in the text itself.
LEMMA NamedAhead ==
  ASSUME NEW t \in Seq(Characters), NEW c \in 0 .. Len(t), NEW w \in Seq(Characters),
         NEW n \in c + 1 .. Len(t) + 1,
         NamesTarget(Whole(t, c, w), Len(w) + (n - c))
  PROVE  NamesTarget(t, n)
<1>1. PICK l \in Nat, v \in Seq(Characters) :
        /\ l = Len(w) /\ v = Whole(t, c, w)
        /\ Len(v) = l + (Len(t) - c)
        /\ \A i \in 1 .. l : v[i] = w[i]
        /\ \A i \in c + 1 .. Len(t) : v[l + (i - c)] = t[i]
  BY WholeAfter
<1>2. PICK j \in Nat : j = l + (n - c)
  OBVIOUS
<1>3. /\ j <= Len(v) /\ v[j] = "B"
      /\ \E end \in j .. Len(v) :
           /\ end = Len(v) \/ v[end + 1] \in Delimiters
           /\ \/ end = j
              \/ end > j + 1 /\ v[j + 1] = ":" /\ \A i \in j + 2 .. end : v[i] = "9"
  BY <1>1, <1>2 DEF NamesTarget
<1>4. PICK end \in j .. Len(v) :
           /\ end = Len(v) \/ v[end + 1] \in Delimiters
           /\ \/ end = j
              \/ end > j + 1 /\ v[j + 1] = ":" /\ \A i \in j + 2 .. end : v[i] = "9"
  BY <1>3
<1>5. n <= Len(t) /\ t[n] = "B"
  <2>1. n \in c + 1 .. Len(t)
    BY <1>1, <1>2, <1>3
  <2> QED
    BY <2>1, <1>1, <1>2, <1>3
<1>6. PICK stop \in n .. Len(t) : end = l + (stop - c)
  <2>1. (end - l) + c \in n .. Len(t) /\ end = l + (((end - l) + c) - c)
    BY <1>1, <1>2, <1>4, <1>5
  <2> QED
    BY <2>1
<1>7. stop = Len(t) \/ t[stop + 1] \in Delimiters
  <2>1. CASE end = Len(v)
    BY <2>1, <1>1, <1>6
  <2>2. CASE end # Len(v)
    <3>1. stop # Len(t)
      BY <2>2, <1>1, <1>6
    <3>2. stop + 1 \in c + 1 .. Len(t) /\ l + ((stop + 1) - c) = end + 1
      BY <3>1, <1>6
    <3> QED
      BY <3>2, <2>2, <1>1, <1>4
  <2> QED
    BY <2>1, <2>2
<1>8. CASE end = j
  <2>1. stop = n
    BY <1>2, <1>6, <1>8
  <2> QED
    BY <2>1, <1>5, <1>7 DEF NamesTarget
<1>9. CASE end # j
  <2>1. stop > n + 1
    BY <1>2, <1>4, <1>6, <1>9
  <2>2. t[n + 1] = ":"
    <3>1. n + 1 \in c + 1 .. Len(t) /\ l + ((n + 1) - c) = j + 1
      BY <2>1, <1>2
    <3> QED
      BY <3>1, <1>1, <1>4, <1>9
  <2>3. ASSUME NEW i \in n + 2 .. stop
        PROVE  t[i] = "9"
    <3>1. i \in c + 1 .. Len(t) /\ l + (i - c) \in j + 2 .. end
      BY <1>2, <1>6
    <3> QED
      BY <3>1, <1>1, <1>4, <1>9
  <2> QED
    BY <2>1, <2>2, <2>3, <1>5, <1>7 DEF NamesTarget
<1> QED
  BY <1>8, <1>9

\* Copying what is read changes nothing of the whole.
LEMMA CopyKeepsWhole ==
  ASSUME NEW t \in Seq(Characters), NEW c \in 0 .. Len(t), NEW d \in c .. Len(t),
         NEW w \in Seq(Characters)
  PROVE  /\ w \o SubSeq(t, c + 1, d) \in Seq(Characters)
         /\ Len(w \o SubSeq(t, c + 1, d)) = Len(w) + (d - c)
         /\ Whole(t, d, w \o SubSeq(t, c + 1, d)) = Whole(t, c, w)
         /\ w = SubSeq(t, 1, c) => w \o SubSeq(t, c + 1, d) = SubSeq(t, 1, d)
<1>1. Len(t) \in Nat /\ c \in 0 .. Len(t) /\ Len(t) \in c .. Len(t) /\ Len(t) \in d .. Len(t)
  OBVIOUS
<1>2. PICK piece \in Seq(Characters) :
        /\ piece = SubSeq(t, c + 1, d) /\ Len(piece) = d - c
        /\ \A n \in 1 .. d - c : piece[n] = t[n + c]
  BY RestIs
<1>3. PICK rest \in Seq(Characters) : rest = SubSeq(t, d + 1, Len(t))
  <2>1. d \in 0 .. Len(t)
    OBVIOUS
  <2> QED
    BY <1>1, <2>1, RestIs
<1>4. (w \o piece) \o rest = w \o (piece \o rest)
  BY ConcatAssociative
<1>5. piece \o rest = SubSeq(t, c + 1, Len(t))
  <2>1. c + 1 \in 1 .. Len(t) + 1 /\ d \in (c + 1) - 1 .. Len(t)
    OBVIOUS
  <2> QED
    BY <1>1, <1>2, <1>3, <2>1, ConcatAdjacentSubSeq
<1>6. w \o piece \in Seq(Characters) /\ Len(w \o piece) = Len(w) + Len(piece)
  BY ConcatProperties
<1>7. ASSUME w = SubSeq(t, 1, c)
      PROVE  w \o piece = SubSeq(t, 1, d)
  <2>1. 1 \in 1 .. Len(t) + 1 /\ c \in 1 - 1 .. Len(t)
    OBVIOUS
  <2> QED
    BY <1>2, <1>7, <2>1, ConcatAdjacentSubSeq
<1> QED
  BY <1>2, <1>3, <1>4, <1>5, <1>6, <1>7 DEF Whole

-----------------------------------------------------------------------------
(* What a turn leaves true of what it has written.                         *)

\* No link to the BMC among the first l places of v but inside other links; and
\* if any authority is wanted, no link but to the proxy.
Swept(v, l) == \A i \in 1 .. l : TargetLinkAt(v, i) => Buried(v, i)
OnlyProxy(v, l) ==
  \A i \in 1 .. l, j \in 1 .. Len(v) : UrlAt(v, i, j) => j <= l /\ v[j] = "P"

NoTargetIn(t) == \A i \in DOMAIN t : ~TargetLinkAt(t, i)

LoopInv(t, c, w, every) ==
  /\ AtEdge(t, c, w)
  /\ Swept(Whole(t, c, w), Len(w))
  /\ every => OnlyProxy(Whole(t, c, w), Len(w))
  /\ ~every /\ NoTargetIn(t) => w = SubSeq(t, 1, c)

\* A separator that ends no scheme is copied with what stands before it.
LEMMA PassedOver ==
  ASSUME NEW t \in Seq(Characters), NEW c \in 0 .. Len(t), NEW w \in Seq(Characters),
         NEW every \in BOOLEAN, LoopInv(t, c, w, every),
         NEW s \in FindSeparator(t, c), SchemeStart(t, s) = s
  PROVE  LoopInv(t, s + 3, w \o SubSeq(t, c + 1, s + 3), every)
<1>1. AtEdge(t, c, w)
  BY DEF LoopInv
<1>2. s \in c .. Len(t) - 3 /\ SeparatorAt(t, s + 1)
  BY FoundIs
<1>3. PICK l \in Nat, v \in Seq(Characters) :
        /\ l = Len(w) /\ v = Whole(t, c, w)
        /\ Len(v) = l + (Len(t) - c)
        /\ \A n \in 1 .. l : v[n] = w[n]
        /\ \A n \in c + 1 .. Len(t) : v[l + (n - c)] = t[n]
  BY WholeAfter
<1>4. PICK d \in c .. Len(t) : d = s + 3
  BY <1>2
<1>5. PICK x \in Seq(Characters) :
        /\ x = w \o SubSeq(t, c + 1, d) /\ Len(x) = l + (d - c)
        /\ Whole(t, d, x) = v
        /\ w = SubSeq(t, 1, c) => x = SubSeq(t, 1, d)
  <2>1. /\ w \o SubSeq(t, c + 1, d) \in Seq(Characters)
        /\ Len(w \o SubSeq(t, c + 1, d)) = Len(w) + (d - c)
        /\ Whole(t, d, w \o SubSeq(t, c + 1, d)) = Whole(t, c, w)
        /\ w = SubSeq(t, 1, c) => w \o SubSeq(t, c + 1, d) = SubSeq(t, 1, d)
    BY CopyKeepsWhole, Zenon
  <2> QED
    BY <1>3, <2>1, Zenon
<1>6. t[d] = "/" /\ d # 0 /\ d \in c + 1 .. Len(t)
  BY <1>2, <1>4 DEF SeparatorAt
<1>7. AtEdge(t, d, x)
  <2>1. x[Len(x)] = "/"
    <3>1. v[l + (d - c)] = t[d]
      BY <1>3, <1>6
    <3>2. d \in 0 .. Len(t) /\ Len(x) \in 1 .. Len(x)
      BY <1>3, <1>5, <1>6
    <3>3. Whole(t, d, x)[Len(x)] = x[Len(x)]
      BY <3>2, WholeIs
    <3> QED
      BY <3>1, <3>3, <1>5, <1>6
  <2> QED
    BY <2>1, <1>6, Kinds DEF AtEdge
<1>8. ASSUME NEW i \in l + 1 .. Len(x), NEW j \in 1 .. Len(v), UrlAt(v, i, j)
      PROVE  FALSE
  <2>1. PICK q \in Nat : q = l + (s - c) /\ Len(x) = q + 3
    <3>1. PICK k \in Nat : k = s - c /\ d - c = k + 3
      <4>1. s - c \in Nat /\ d - c = (s - c) + 3
        BY <1>2, <1>4
      <4> QED
        BY <4>1
    <3>2. Len(x) = l + (k + 3)
      BY <3>1, <1>5
    <3>3. l + k \in Nat /\ l + (k + 3) = (l + k) + 3
      OBVIOUS
    <3> QED
      BY <3>1, <3>2, <3>3
  <2>2. CASE i <= q
    <3>1. i \in Len(w) + 1 .. Len(w) + (s - c)
      BY <2>1, <2>2, <1>3, <1>5
    <3>2. j \in 1 .. Len(Whole(t, c, w)) + 1
      BY <1>3
    <3>3. UrlAt(Whole(t, c, w), i, j)
      BY <1>3, <1>8
    <3>4. SchemeStart(t, s) < s
      BY <3>1, <3>2, <3>3, <1>1, OneLinkAhead
    <3> QED
      BY <3>4, <1>2
  <2>3. CASE i > q
    <3>1. SeparatorAt(v, q + 1)
      BY <2>1, <1>3, WholeAhead
    <3>2. i \in Int /\ i <= q + 3
      BY <2>1, <1>3
    <3>3. i = q + 1 \/ i = (q + 1) + 1 \/ i = (q + 1) + 2
      BY <3>2, <2>3
    <3>4. v[i] \in {":", "/"}
      BY <3>1, <3>3 DEF SeparatorAt
    <3> QED
      BY <3>4, <1>8, Kinds DEF UrlAt
  <2> QED
    BY <2>1, <2>2, <2>3
<1>9. \A i \in 1 .. Len(x) : i \in 1 .. l \/ i \in l + 1 .. Len(x)
  BY <1>3, <1>5
<1>10. l <= Len(x) /\ Len(v) \in Nat
  BY <1>3, <1>5
<1>11. Swept(v, Len(x))
  <2>1. ASSUME NEW i \in l + 1 .. Len(x), TargetLinkAt(v, i)
        PROVE  FALSE
    <3>1. \E j \in 1 .. Len(v) : UrlAt(v, i, j)
      BY <2>1, <1>3 DEF TargetLinkAt
    <3> QED
      BY <3>1, <1>8
  <2> QED
    BY <2>1, <1>3, <1>9 DEF LoopInv, Swept
<1>12. ASSUME every
       PROVE  OnlyProxy(v, Len(x))
  <2>1. OnlyProxy(v, l)
    BY <1>3, <1>12 DEF LoopInv
  <2>2. ASSUME NEW i \in 1 .. Len(x), NEW j \in 1 .. Len(v), UrlAt(v, i, j)
        PROVE  j <= Len(x) /\ v[j] = "P"
    <3>1. i \in 1 .. l
      BY <2>2, <1>8, <1>9
    <3> QED
      BY <3>1, <2>1, <2>2, <1>3, <1>5, <1>10 DEF OnlyProxy
  <2> QED
    BY <2>2 DEF OnlyProxy
<1> QED
  BY <1>4, <1>5, <1>7, <1>11, <1>12 DEF LoopInv

LEMMA Telescope ==
  \A l, c, s, e \in Nat : l + (e - c) = (l + (s - c)) + (e - s)
OBVIOUS

\* The end of the authority, and what is_target says of it.
LEMMA LinkEnd ==
  ASSUME NEW t \in Seq(Characters), NEW c \in 0 .. Len(t), NEW s \in FindSeparator(t, c)
  PROVE  \E e \in s + 3 .. Len(t) :
           /\ e = AuthorityEnd(t, s + 3)
           /\ \A n \in s + 4 .. e : t[n] \notin Delimiters
           /\ Cut(t, e)
           /\ IsTarget(SubSeq(t, s + 4, e)) <=> NamesTarget(t, s + 4)
<1>1. s \in c .. Len(t) - 3
  BY FoundIs
<1>2. /\ s + 3 \in 0 .. Len(t) /\ s + 4 \in 1 .. Len(t) + 1
      /\ (s + 3) + 1 = s + 4 /\ (s + 4) - 1 = s + 3
  BY <1>1
<1>3. PICK e \in s + 3 .. Len(t) :
        /\ e = AuthorityEnd(t, s + 3)
        /\ \A n \in s + 4 .. e : t[n] \notin Delimiters
        /\ e = Len(t) \/ t[e + 1] \in Delimiters
  BY <1>2, EndIs
<1>4. e \in (s + 4) - 1 .. Len(t)
  BY <1>2
<1>5. IsTarget(SubSeq(t, s + 4, e)) <=> NamesTarget(t, s + 4)
  BY <1>2, <1>3, <1>4, TargetNamed
<1> QED
  BY <1>3, <1>5 DEF Cut

\* A link that is not wanted is copied with what stands before it; another link in
\* its authority is one inside it.
LEMMA KeptLink ==
  ASSUME NEW t \in Seq(Characters), NEW c \in 0 .. Len(t), NEW w \in Seq(Characters),
         LoopInv(t, c, w, FALSE), NEW s \in FindSeparator(t, c), SchemeStart(t, s) < s,
         NEW e \in s + 3 .. Len(t), e = AuthorityEnd(t, s + 3),
         ~IsTarget(SubSeq(t, s + 4, e))
  PROVE  LoopInv(t, e, w \o SubSeq(t, c + 1, e), FALSE)
<1>1. AtEdge(t, c, w)
  BY DEF LoopInv
<1>2. s \in c .. Len(t) - 3
  BY FoundIs
<1>3. PICK l \in Nat, v \in Seq(Characters) :
        /\ l = Len(w) /\ v = Whole(t, c, w)
        /\ Len(v) = l + (Len(t) - c)
        /\ \A n \in 1 .. l : v[n] = w[n]
        /\ \A n \in c + 1 .. Len(t) : v[l + (n - c)] = t[n]
  BY WholeAfter
<1>4. /\ \A n \in s + 4 .. e : t[n] \notin Delimiters
      /\ Cut(t, e)
      /\ ~NamesTarget(t, s + 4)
  BY LinkEnd
<1>5. e \in c .. Len(t)
  BY <1>2
<1>6. PICK x \in Seq(Characters) :
        /\ x = w \o SubSeq(t, c + 1, e) /\ Len(x) = l + (e - c)
        /\ Whole(t, e, x) = v
        /\ w = SubSeq(t, 1, c) => x = SubSeq(t, 1, e)
  <2>1. /\ w \o SubSeq(t, c + 1, e) \in Seq(Characters)
        /\ Len(w \o SubSeq(t, c + 1, e)) = Len(w) + (e - c)
        /\ Whole(t, e, w \o SubSeq(t, c + 1, e)) = Whole(t, c, w)
        /\ w = SubSeq(t, 1, c) => w \o SubSeq(t, c + 1, e) = SubSeq(t, 1, e)
    BY <1>5, CopyKeepsWhole
  <2> QED
    BY <1>3, <2>1, Zenon
<1>7. AtEdge(t, e, x)
  BY <1>4 DEF AtEdge
<1>8. PICK a \in c .. s - 1 :
        /\ a = SchemeStart(t, s)
        /\ UrlAt(v, l + (a - c) + 1, l + (s - c) + 4)
  BY <1>1, <1>3, LinkAhead
<1>9. PICK q \in Nat : q = l + (s - c) /\ q >= l
  <2>1. s - c \in Nat
    BY <1>2
  <2> QED
    BY <2>1
<1>10. PICK h \in 1 .. q : h = l + (a - c) + 1
  <2>1. a - c \in Nat /\ a - c < s - c /\ s - c \in Nat
    <3>1. s \in Nat /\ c \in Nat /\ a \in Nat /\ c <= a /\ a < s
      BY <1>2
    <3> QED
      BY <3>1
  <2> QED
    BY <2>1, <1>9
<1>11. Len(x) = q + (e - s) /\ e - s \in Nat
  <2>1. s \in Nat /\ c \in Nat /\ e \in Nat /\ s <= e
    BY <1>2
  <2>2. e - s \in Nat
    BY <2>1
  <2>3. l + (e - c) = (l + (s - c)) + (e - s)
    BY <2>1, Telescope
  <2> QED
    BY <2>2, <2>3, <1>6, <1>9
<1>12. ASSUME NEW i \in l + 1 .. Len(x), TargetLinkAt(v, i)
       PROVE  Buried(v, i)
  <2>1. CASE i <= q
    <3>1. PICK j \in 1 .. Len(v) : UrlAt(v, i, j) /\ NamesTarget(v, j)
      BY <1>3, <1>12 DEF TargetLinkAt
    <3>2. i \in Len(w) + 1 .. Len(w) + (s - c)
      BY <2>1, <1>3, <1>9, <1>11
    <3>3. j \in 1 .. Len(Whole(t, c, w)) + 1 /\ UrlAt(Whole(t, c, w), i, j)
      BY <3>1, <1>3
    <3>4. j = Len(w) + (s - c) + 4
      BY <3>2, <3>3, <1>1, OneLinkAhead
    <3>5. s + 4 \in c + 1 .. Len(t) + 1 /\ Len(w) + ((s + 4) - c) = j
      <4>1. s \in Nat /\ c \in Nat /\ c <= s /\ s + 3 <= Len(t)
        BY <1>2
      <4>2. s + 4 \in c + 1 .. Len(t) + 1
        <5>1. Len(t) \in Nat
          BY LenProperties
        <5> QED
          BY <5>1, <4>1
      <4>3. l + (s - c) + 4 = l + ((s + 4) - c)
        BY <4>1
      <4>4. j = l + (s - c) + 4 /\ Len(w) = l
        BY <3>4, <1>3
      <4> QED
        BY <4>2, <4>3, <4>4, Zenon
    <3>6. NamesTarget(t, s + 4)
      BY <3>1, <3>5, <1>3, NamedAhead
    <3> QED
      BY <3>6, <1>4
  <2>2. CASE i \in q + 1 .. q + 3
    <3>1. SeparatorAt(v, q + 1)
      BY <1>3, <1>9, WholeAhead
    <3>2. i = q + 1 \/ i = (q + 1) + 1 \/ i = (q + 1) + 2
      BY <2>2
    <3>3. v[i] \in {":", "/"}
      BY <3>1, <3>2 DEF SeparatorAt
    <3> QED
      BY <3>3, <1>12, Kinds DEF UrlAt, TargetLinkAt
  <2>3. CASE i >= q + 4
    <3>1. h \in 1 .. i - 1 /\ q + 4 \in h .. i
      BY <2>3, <1>10, <1>11
    <3>2. UrlAt(v, h, q + 4)
      BY <1>8, <1>9, <1>10
    <3>3. ASSUME NEW n \in q + 4 .. i - 1
          PROVE  v[n] \notin Delimiters
      <4>1. PICK k \in s + 4 .. e : n = l + (k - c)
        <5>1. PICK d \in 4 .. e - s : n = q + d
          <6>1. n - q \in 4 .. e - s /\ n = q + (n - q)
            BY <1>11
          <6> QED
            BY <6>1
        <5>2. s + d \in s + 4 .. e /\ l + ((s + d) - c) = n
          BY <5>1, <1>2, <1>9
        <5> QED
          BY <5>2
      <4>2. k \in c + 1 .. Len(t)
        BY <4>1, <1>2
      <4> QED
        BY <4>1, <4>2, <1>3, <1>4
    <3> QED
      BY <3>1, <3>2, <3>3 DEF Buried
  <2> QED
    BY <2>1, <2>2, <2>3, <1>11
<1>13. Swept(v, Len(x))
  <2>1. \A i \in 1 .. Len(x) : i \in 1 .. l \/ i \in l + 1 .. Len(x)
    BY <1>11
  <2>2. Swept(v, l)
    BY <1>3 DEF LoopInv
  <2> QED
    BY <2>1, <2>2, <1>12 DEF Swept
<1> QED
  BY <1>6, <1>7, <1>13 DEF LoopInv

\* The proxy's authority after the first m places of a text, and an end.
BaseAt(v, m) ==
  /\ v[m + 1] = "x" /\ v[m + 2] = ":" /\ v[m + 3] = "/" /\ v[m + 4] = "/" /\ v[m + 5] = "P"
  /\ m + 5 < Len(v) => v[m + 6] \in Delimiters

LEMMA Regrouped ==
  ASSUME NEW r \in Seq(Characters), NEW p \in Seq(Characters), NEW q \in Seq(Characters)
  PROVE  (r \o p) \o q = r \o (p \o q)
BY ConcatAssociative

LEMMA BaseIs ==
  /\ Base \in Seq(Characters) /\ Len(Base) = 5
  /\ Base[1] = "x" /\ Base[2] = ":" /\ Base[3] = "/" /\ Base[4] = "/" /\ Base[5] = "P"
<1>1. {"x", ":", "/", "P"} \subseteq Characters
  BY DEF Characters, SchemeChars, Letters, Delimiters
<1>2. <<"x", ":", "/", "/", "P">> \in Seq(Characters)
  BY <1>1
<1> QED
  BY <1>2 DEF Base

LEMMA BaseAfter ==
  ASSUME NEW t \in Seq(Characters), NEW c \in 0 .. Len(t), NEW w \in Seq(Characters),
         NEW a \in c .. Len(t)
  PROVE  (w \o SubSeq(t, c + 1, a)) \o Base = w \o (SubSeq(t, c + 1, a) \o Base)
<1>1. SubSeq(t, c + 1, a) \in Seq(Characters)
  BY RestIs
<1> QED
  BY <1>1, BaseIs, Regrouped

\* What is written (x) and the whole (u) once a link that begins after a and ends
\* at e is swapped, next to the whole before (v), which m places stay of.
Swapped(t, c, w, a, e, l, m, v, x, u) ==
  /\ l = Len(w) /\ m = l + (a - c) /\ v = Whole(t, c, w)
  /\ x = w \o (SubSeq(t, c + 1, a) \o Base) /\ u = Whole(t, e, x)
  /\ Len(x) = m + 5 /\ Len(x) <= Len(u) /\ m <= Len(v)
  /\ \A n \in 1 .. m : u[n] = v[n]
  /\ BaseAt(u, m)

\* What a swapped link leaves: the proxy between the parts on either side of it.
LEMMA SwappedIs ==
  ASSUME NEW t \in Seq(Characters), NEW c \in 0 .. Len(t), NEW w \in Seq(Characters),
         NEW a \in c .. Len(t), NEW e \in a .. Len(t), Cut(t, e)
  PROVE  \E l \in Nat, m \in Nat, v \in Seq(Characters), x \in Seq(Characters),
            u \in Seq(Characters) : Swapped(t, c, w, a, e, l, m, v, x, u)
<1>1. PICK l \in Nat, v \in Seq(Characters) :
        /\ l = Len(w) /\ v = Whole(t, c, w)
        /\ Len(v) = l + (Len(t) - c)
  BY WholeAfter
<1>2. PICK d \in Nat : d = a - c
  OBVIOUS
<1>3. PICK m \in Nat : m = l + d
  OBVIOUS
<1>4. PICK y \in Seq(Characters) :
        y = w \o SubSeq(t, c + 1, a) /\ Len(y) = m /\ Whole(t, a, y) = v
  <2>1. /\ w \o SubSeq(t, c + 1, a) \in Seq(Characters)
        /\ Len(w \o SubSeq(t, c + 1, a)) = Len(w) + (a - c)
        /\ Whole(t, a, w \o SubSeq(t, c + 1, a)) = Whole(t, c, w)
    BY CopyKeepsWhole, Zenon
  <2> QED
    BY <1>1, <1>2, <1>3, <2>1, Zenon
<1>5. PICK b \in Seq(Characters) :
        /\ b = Base /\ Len(b) = 5
        /\ b[1] = "x" /\ b[2] = ":" /\ b[3] = "/" /\ b[4] = "/" /\ b[5] = "P"
  BY BaseIs
<1>6. PICK x \in Seq(Characters) :
        /\ x = y \o b /\ Len(x) = m + 5
        /\ \A n \in 1 .. m : x[n] = y[n]
        /\ \A n \in 1 .. 5 : x[m + n] = b[n]
  <2>1. /\ y \o b \in Seq(Characters) /\ Len(y \o b) = m + 5
        /\ \A n \in 1 .. m + 5 : (y \o b)[n] = IF n <= m THEN y[n] ELSE b[n - m]
    <3>1. /\ y \o b \in Seq(Characters) /\ Len(y \o b) = Len(y) + Len(b)
          /\ \A n \in 1 .. Len(y) + Len(b) :
               (y \o b)[n] = IF n <= Len(y) THEN y[n] ELSE b[n - Len(y)]
      BY ConcatProperties
    <3> QED
      BY <3>1, <1>4, <1>5
  <2>2. \A n \in 1 .. m : (y \o b)[n] = y[n]
    BY <2>1
  <2>3. ASSUME NEW n \in 1 .. 5
        PROVE  (y \o b)[m + n] = b[n]
    <3>1. m + n \in 1 .. m + 5 /\ ~(m + n <= m) /\ (m + n) - m = n
      OBVIOUS
    <3> QED
      BY <3>1, <2>1
  <2> QED
    BY <2>1, <2>2, <2>3
<1>7. x = w \o (SubSeq(t, c + 1, a) \o Base)
  BY <1>4, <1>5, <1>6, BaseAfter
<1>8. e \in 0 .. Len(t) /\ a \in 0 .. Len(t)
  OBVIOUS
<1>9. PICK k \in Nat, u \in Seq(Characters) :
        /\ k = Len(x) /\ u = Whole(t, e, x)
        /\ Len(u) = k + (Len(t) - e)
        /\ \A n \in 1 .. k : u[n] = x[n]
        /\ \A n \in e + 1 .. Len(t) : u[k + (n - e)] = t[n]
  BY <1>8, WholeAfter
<1>10. Len(x) <= Len(u) /\ m <= Len(v)
  <2>1. Len(t) - e \in Nat /\ Len(t) - c \in Nat /\ d <= Len(t) - c
    BY <1>2
  <2>2. Len(x) <= Len(u)
    BY <2>1, <1>9
  <2>3. l + d <= l + (Len(t) - c)
    BY <2>1
  <2> QED
    BY <2>2, <2>3, <1>1, <1>3
<1>11. \A n \in 1 .. m : u[n] = v[n]
  <2>1. \A n \in 1 .. Len(y) : Whole(t, a, y)[n] = y[n]
    BY <1>8, WholeIs, Zenon
  <2>2. \A n \in 1 .. m : n \in 1 .. k
    BY <1>6, <1>9
  <2>3. \A n \in 1 .. m : u[n] = y[n]
    BY <2>2, <1>6, <1>9, Zenon
  <2> QED
    BY <2>1, <2>3, <1>4, Zenon
<1>12. BaseAt(u, m)
  <2>1. \A n \in 1 .. 5 : u[m + n] = b[n]
    <3>1. \A n \in 1 .. 5 : m + n \in 1 .. k
      BY <1>6, <1>9
    <3> QED
      BY <3>1, <1>6, <1>9, Zenon
  <2>2. ASSUME m + 5 < Len(u)
        PROVE  u[m + 6] \in Delimiters
    <3>1. e # Len(t)
      <4>1. k = m + 5
        BY <1>6, <1>9
      <4>2. k < k + (Len(t) - e)
        BY <4>1, <2>2, <1>9
      <4>3. ASSUME e = Len(t)
            PROVE  Len(t) - e = 0
        BY <4>3
      <4>4. k + 0 = k /\ ~(k < k)
        OBVIOUS
      <4> QED
        BY <4>2, <4>3, <4>4
    <3>2. e + 1 \in e + 1 .. Len(t) /\ (e + 1) - e = 1
      BY <3>1
    <3>3. u[k + 1] = t[e + 1]
      BY <3>2, <1>9
    <3>4. k + 1 = m + 6
      BY <1>6, <1>9
    <3> QED
      BY <3>1, <3>3, <3>4 DEF Cut
  <2> QED
    BY <2>1, <2>2, <1>5 DEF BaseAt
<1>13. Swapped(t, c, w, a, e, l, m, v, x, u)
  BY <1>1, <1>2, <1>3, <1>6, <1>7, <1>9, <1>10, <1>11, <1>12, Zenon DEF Swapped
<1> QED
  BY <1>13

\* A link that ends at or after it names the proxy.
LEMMA LinksAround ==
  ASSUME NEW u \in Seq(Characters), NEW m \in Nat, BaseAt(u, m), m + 5 <= Len(u),
         NEW i \in 1 .. m + 5, NEW j \in 1 .. Len(u), UrlAt(u, i, j)
  PROVE  j = m + 5 \/ (i <= m /\ j <= m + 1)
<1>1. UrlShape(u, i, j)
  <2>1. i \in 1 .. Len(u) + 1 /\ j \in 1 .. Len(u) + 1
    OBVIOUS
  <2> QED
    BY <2>1, UrlIs
<1>2. /\ u[i] \in Letters /\ i < j - 3
      /\ u[j - 3] = ":" /\ u[(j - 3) + 1] = "/" /\ u[(j - 3) + 2] = "/"
      /\ \A n \in i .. j - 4 : u[n] \in SchemeChars
  BY <1>1 DEF UrlShape, SeparatorAt
<1>3. /\ u[m + 1] = "x" /\ u[m + 2] = ":" /\ u[m + 3] = "/" /\ u[m + 4] = "/"
      /\ m + 5 < Len(u) => u[m + 6] \in Delimiters
  BY DEF BaseAt
<1>4. CASE i <= m + 1
  <2>1. m + 2 \notin i .. j - 4
    BY <1>2, <1>3, Kinds
  <2>2. j <= m + 5
    BY <2>1, <1>4
  <2>3. ASSUME j \in m + 2 .. m + 4
        PROVE  FALSE
    <3>1. j - 3 = m + 1 \/ (j - 3) + 1 = m + 1 \/ (j - 3) + 2 = m + 1
      BY <2>3
    <3> QED
      BY <3>1, <1>2, <1>3
  <2>4. j = m + 5 \/ j <= m + 1
    BY <2>2, <2>3
  <2>5. j <= m + 1 => i <= m
    BY <1>2
  <2> QED
    BY <2>4, <2>5
<1>5. CASE i \in m + 2 .. m + 4
  <2>1. i = m + 2 \/ i = m + 3 \/ i = m + 4
    BY <1>5
  <2> QED
    BY <2>1, <1>2, <1>3, Kinds
<1>6. CASE i = m + 5
  <2>1. m + 5 < Len(u)
    BY <1>2, <1>6
  <2>2. u[m + 6] \in Delimiters
    BY <2>1, <1>3
  <2>3. m + 6 \in i .. j - 4 \/ j - 3 = m + 6
    BY <1>2, <1>6
  <2> QED
    BY <2>2, <2>3, <1>2, Kinds
<1> QED
  BY <1>4, <1>5, <1>6

\* An authority that names the BMC before it is one in the text without it.
LEMMA NamedBefore ==
  ASSUME NEW u \in Seq(Characters), NEW v \in Seq(Characters), NEW m \in Nat,
         BaseAt(u, m), m + 5 <= Len(u), m <= Len(v), \A n \in 1 .. m : u[n] = v[n],
         NEW j \in 1 .. m + 1, NamesTarget(u, j)
  PROVE  NamesTarget(v, j)
<1>1. u[m + 1] = "x" /\ u[j] = "B"
  BY DEF BaseAt, NamesTarget
<1>2. PICK end \in j .. Len(u) :
        /\ end = Len(u) \/ u[end + 1] \in Delimiters
        /\ \/ end = j
           \/ end > j + 1 /\ u[j + 1] = ":" /\ \A n \in j + 2 .. end : u[n] = "9"
  BY DEF NamesTarget
<1>3. j \in 1 .. m
  BY <1>1
<1>4. ASSUME end >= m + 1
      PROVE  FALSE
  <2>1. end > j + 1 /\ u[j + 1] = ":" /\ \A n \in j + 2 .. end : u[n] = "9"
    BY <1>2, <1>3, <1>4
  <2>2. m + 1 = j + 1 \/ m + 1 \in j + 2 .. end
    BY <1>3, <1>4
  <2> QED
    BY <2>1, <2>2, <1>1
<1>5. end # m
  <2>1. "x" \notin Delimiters
    BY DEF Delimiters
  <2> QED
    BY <2>1, <1>1, <1>2
<1>6. end \in j .. m - 1
  BY <1>3, <1>4, <1>5
<1>7. end \in j .. Len(v) /\ end + 1 \in 1 .. m /\ end # Len(u)
  BY <1>3, <1>6
<1>8. v[end + 1] \in Delimiters
  BY <1>2, <1>7
<1>9. \A n \in j .. end : n \in 1 .. m /\ v[n] = u[n]
  BY <1>3, <1>6
<1>10. v[j] = "B" /\ j <= Len(v)
  BY <1>1, <1>3
<1>11. \/ end = j
       \/ end > j + 1 /\ v[j + 1] = ":" /\ \A n \in j + 2 .. end : v[n] = "9"
  <2>1. CASE end = j
    BY <2>1
  <2>2. CASE end # j
    <3>1. end > j + 1 /\ u[j + 1] = ":" /\ \A n \in j + 2 .. end : u[n] = "9"
      BY <2>2, <1>2
    <3>2. j + 1 \in j .. end /\ \A n \in j + 2 .. end : n \in j .. end
      BY <3>1, <1>3
    <3> QED
      BY <3>1, <3>2, <1>9
  <2> QED
    BY <2>1, <2>2
<1> QED
  BY <1>7, <1>8, <1>10, <1>11 DEF NamesTarget

\* A link that is wanted is swapped; what is not in its place any more was no link
\* to the BMC that stood by itself.
LEMMA SwappedLink ==
  ASSUME NEW t \in Seq(Characters), NEW c \in 0 .. Len(t), NEW w \in Seq(Characters),
         NEW every \in BOOLEAN, LoopInv(t, c, w, every),
         NEW s \in FindSeparator(t, c), SchemeStart(t, s) < s,
         NEW e \in s + 3 .. Len(t), e = AuthorityEnd(t, s + 3),
         every \/ IsTarget(SubSeq(t, s + 4, e))
  PROVE  LoopInv(t, e, w \o (SubSeq(t, c + 1, SchemeStart(t, s)) \o Base), every)
<1>1. AtEdge(t, c, w)
  BY DEF LoopInv
<1>2. s \in c .. Len(t) - 3
  BY FoundIs
<1>3. Cut(t, e) /\ (IsTarget(SubSeq(t, s + 4, e)) <=> NamesTarget(t, s + 4))
  BY LinkEnd
<1>4. PICK a \in c .. s - 1 : a = SchemeStart(t, s) /\ UrlAt(t, a + 1, s + 4)
  BY <1>1, LinkAhead
<1>5. a \in c .. Len(t) /\ e \in a .. Len(t)
  BY <1>2
<1>6. PICK l \in Nat, m \in Nat, v \in Seq(Characters), x \in Seq(Characters),
           u \in Seq(Characters) : Swapped(t, c, w, a, e, l, m, v, x, u)
  BY <1>3, <1>5, SwappedIs
<1>7. /\ l = Len(w) /\ m = l + (a - c) /\ v = Whole(t, c, w)
      /\ x = w \o (SubSeq(t, c + 1, a) \o Base) /\ u = Whole(t, e, x)
      /\ Len(x) = m + 5 /\ Len(x) <= Len(u) /\ m <= Len(v)
      /\ \A n \in 1 .. m : u[n] = v[n]
      /\ BaseAt(u, m)
  BY <1>6 DEF Swapped
<1>8. BaseAt(u, m)
  BY <1>7
<1>9. m + 5 <= Len(u) /\ m <= Len(v) /\ Len(x) = m + 5
  BY <1>7
<1>10. \A n \in 1 .. m : u[n] = v[n]
  BY <1>7
<1>11. Len(v) = l + (Len(t) - c)
  <2>1. Len(Whole(t, c, w)) = Len(w) + (Len(t) - c)
    BY WholeIs, Zenon
  <2> QED
    BY <2>1, <1>7, Zenon
<1>12. Swept(v, l) /\ (every => OnlyProxy(v, l))
  BY <1>7 DEF LoopInv
<1>13. l <= m /\ m <= l + (s - c) /\ m < Len(v) /\ m <= Len(u)
  <2>1. PICK d \in Nat : d = a - c
    OBVIOUS
  <2>2. s - c \in Nat /\ d <= s - c /\ Len(t) - c \in Nat /\ d < Len(t) - c
    BY <1>2, <2>1
  <2>3. m = l + d
    BY <1>7, <2>1
  <2>4. m + 5 <= Len(u)
    BY <1>7
  <2> QED
    BY <2>2, <2>3, <2>4, <1>11
<1>14. ASSUME NEW i \in 1 .. m, NEW j \in 1 .. m + 1, UrlAt(u, i, j)
       PROVE  UrlAt(v, i, j) /\ i \in 1 .. l
  <2>1. UrlAt(v, i, j)
    <3>1. i \in 1 .. m + 1 /\ m <= Len(v)
      BY <1>13
    <3> QED
      BY <3>1, <1>13, <1>14, <1>10, OfAPrefix
  <2>2. ASSUME i > l
        PROVE  FALSE
    <3>1. i \in Len(w) + 1 .. Len(w) + (s - c)
      <4>1. PICK d \in Nat : d = s - c /\ m <= l + d
        <5>1. s - c \in Nat
          BY <1>2
        <5> QED
          BY <5>1, <1>13
      <4>2. i \in l + 1 .. l + d
        BY <4>1, <2>2
      <4> QED
        BY <4>1, <4>2, <1>7
    <3>2. j \in 1 .. Len(Whole(t, c, w)) + 1 /\ UrlAt(Whole(t, c, w), i, j)
      BY <2>1, <1>7, <1>13
    <3>3. i = Len(w) + (SchemeStart(t, s) - c) + 1
      BY <3>1, <3>2, <1>1, OneLinkAhead
    <3>4. i = m + 1
      BY <3>3, <1>4, <1>7
    <3> QED
      BY <3>4
  <2> QED
    BY <2>1, <2>2
<1>15. ASSUME NEW i \in 1 .. Len(x), NEW j \in 1 .. Len(u), UrlAt(u, i, j)
       PROVE  \/ j = m + 5 /\ u[j] = "P"
              \/ i \in 1 .. m /\ j \in 1 .. m + 1
  <2>1. i \in 1 .. m + 5 /\ m + 5 <= Len(u) /\ u[m + 5] = "P"
    BY <1>7 DEF BaseAt
  <2>2. j = m + 5 \/ (i <= m /\ j <= m + 1)
    BY <2>1, <1>7, <1>15, LinksAround
  <2> QED
    BY <2>1, <2>2
<1>16. ASSUME NEW j \in 1 .. m + 1, NamesTarget(u, j)
       PROVE  NamesTarget(v, j)
  BY <1>16, <1>8, <1>9, <1>10, NamedBefore
<1>17. Swept(u, Len(x))
  <2>1. ASSUME NEW i \in 1 .. Len(x), TargetLinkAt(u, i)
        PROVE  Buried(u, i)
    <3>1. PICK j \in 1 .. Len(u) : UrlAt(u, i, j) /\ NamesTarget(u, j) /\ j >= i
      BY <2>1 DEF TargetLinkAt
    <3>2. u[j] # "P"
      BY <3>1 DEF NamesTarget
    <3>3. i \in 1 .. m /\ j \in 1 .. m + 1
      BY <3>1, <3>2, <1>15
    <3>4. UrlAt(v, i, j) /\ i \in 1 .. l /\ NamesTarget(v, j)
      BY <3>1, <3>3, <1>14, <1>16
    <3>5. j \in i .. Len(v)
      BY <3>1, <3>3, <1>13
    <3>6. TargetLinkAt(v, i)
      BY <3>4, <3>5 DEF TargetLinkAt
    <3>7. Buried(v, i)
      BY <3>4, <3>6, <1>12 DEF Swept
    <3>8. i \in 1 .. m + 1 /\ m <= Len(u) /\ \A n \in 1 .. m : v[n] = u[n]
      BY <3>3, <1>9, <1>10
    <3> QED
      BY <3>7, <3>8, <1>9, OfAPrefix
  <2> QED
    BY <2>1 DEF Swept
<1>18. ASSUME every
       PROVE  OnlyProxy(u, Len(x))
  <2>1. ASSUME NEW i \in 1 .. Len(x), NEW j \in 1 .. Len(u), UrlAt(u, i, j)
        PROVE  j <= Len(x) /\ u[j] = "P"
    <3>1. CASE j = m + 5 /\ u[j] = "P"
      BY <3>1, <1>7
    <3>2. CASE i \in 1 .. m /\ j \in 1 .. m + 1
      <4>1. UrlAt(v, i, j) /\ i \in 1 .. l
        BY <3>2, <2>1, <1>14
      <4>2. j \in 1 .. Len(v)
        BY <3>2, <1>13
      <4>3. j <= l /\ v[j] = "P"
        BY <4>1, <4>2, <1>12, <1>18 DEF OnlyProxy
      <4>4. j \in 1 .. m /\ j <= m + 5
        BY <4>3, <1>13
      <4> QED
        BY <4>3, <4>4, <1>7
    <3> QED
      BY <3>1, <3>2, <2>1, <1>15
  <2> QED
    BY <2>1 DEF OnlyProxy
<1>19. ASSUME ~every
       PROVE  ~NoTargetIn(t)
  <2>1. NamesTarget(t, s + 4)
    BY <1>3, <1>19
  <2>2. s + 4 \in a + 1 .. Len(t) /\ a + 1 \in DOMAIN t
    <3>1. s + 4 <= Len(t) /\ DOMAIN t = 1 .. Len(t)
      BY <2>1 DEF NamesTarget
    <3> QED
      BY <3>1, <1>2
  <2> QED
    BY <2>1, <2>2, <1>4 DEF TargetLinkAt, NoTargetIn
<1>20. AtEdge(t, e, x)
  BY <1>3 DEF AtEdge
<1> QED
  BY <1>4, <1>7, <1>17, <1>18, <1>19, <1>20 DEF LoopInv

\* One turn of the loop keeps what the turns before it made true.
LEMMA TurnKeeps ==
  ASSUME NEW t \in Seq(Characters), NEW c \in 0 .. Len(t), NEW w \in Seq(Characters),
         NEW every \in BOOLEAN, LoopInv(t, c, w, every), NEW s \in FindSeparator(t, c)
  PROVE  LET turn == Turn(t, c, s, every)
         IN /\ turn.cursor \in 0 .. Len(t)
            /\ w \o turn.out \in Seq(Characters)
            /\ LoopInv(t, turn.cursor, w \o turn.out, every)
<1> DEFINE a == SchemeStart(t, s)
           e == AuthorityEnd(t, s + 3)
           turn == Turn(t, c, s, every)
<1>1. AtEdge(t, c, w)
  BY DEF LoopInv
<1>2. s \in c .. Len(t) - 3
  BY FoundIs
<1>3. a \in c .. s
  <2>1. PICK run \in c .. s : a = run \/ a = s
    BY <1>1, StartInOrder
  <2>2. s \in c .. s
    BY <1>2
  <2> QED
    BY <2>1, <2>2
<1>4. e \in s + 3 .. Len(t)
  BY LinkEnd
<1>5. /\ s + 3 \in c .. Len(t) /\ s + 3 \in 0 .. Len(t)
      /\ e \in c .. Len(t) /\ e \in 0 .. Len(t)
      /\ a \in c .. Len(t)
  BY <1>2, <1>3, <1>4
<1>6. CASE a = s
  <2>1. turn = [cursor |-> s + 3, out |-> SubSeq(t, c + 1, s + 3)]
    BY <1>6 DEF Turn
  <2>2. turn.cursor = s + 3 /\ turn.out = SubSeq(t, c + 1, s + 3)
    <3> HIDE DEF turn
    <3> QED
      BY <2>1
  <2>3. w \o SubSeq(t, c + 1, s + 3) \in Seq(Characters)
    BY <1>5, CopyKeepsWhole
  <2>4. LoopInv(t, s + 3, w \o SubSeq(t, c + 1, s + 3), every)
    BY <1>6, PassedOver
  <2> QED
    BY <2>2, <2>3, <2>4, <1>5
<1>7. CASE a # s /\ ~every /\ ~IsTarget(SubSeq(t, s + 4, e))
  <2>1. turn = [cursor |-> e, out |-> SubSeq(t, c + 1, a) \o SubSeq(t, a + 1, e)]
    BY <1>7 DEF Turn
  <2>2. a < s /\ every = FALSE
    BY <1>2, <1>3, <1>7
  <2>3. SubSeq(t, c + 1, a) \o SubSeq(t, a + 1, e) = SubSeq(t, c + 1, e)
    <3>1. c + 1 \in 1 .. Len(t) + 1 /\ a \in (c + 1) - 1 .. Len(t) /\ e \in a .. Len(t)
      BY <1>2, <1>3, <1>4
    <3> QED
      BY <3>1, ConcatAdjacentSubSeq
  <2>4. turn.cursor = e /\ turn.out = SubSeq(t, c + 1, e)
    <3> HIDE DEF turn
    <3> QED
      BY <2>1, <2>3
  <2>5. w \o SubSeq(t, c + 1, e) \in Seq(Characters)
    BY <1>5, CopyKeepsWhole
  <2>6. LoopInv(t, e, w \o SubSeq(t, c + 1, e), FALSE)
    BY <2>2, <1>4, <1>7, KeptLink
  <2> QED
    BY <2>2, <2>4, <2>5, <2>6, <1>5
<1>8. CASE a # s /\ (every \/ IsTarget(SubSeq(t, s + 4, e)))
  <2>1. turn = [cursor |-> e, out |-> SubSeq(t, c + 1, a) \o Base]
    BY <1>8 DEF Turn
  <2>2. turn.cursor = e /\ turn.out = SubSeq(t, c + 1, a) \o Base
    <3> HIDE DEF turn
    <3> QED
      BY <2>1
  <2>3. a < s
    BY <1>2, <1>3, <1>8
  <2>4. w \o (SubSeq(t, c + 1, a) \o Base) \in Seq(Characters)
    <3>1. SubSeq(t, c + 1, a) \in Seq(Characters)
      BY <1>5, RestIs
    <3>2. SubSeq(t, c + 1, a) \o Base \in Seq(Characters)
      BY <3>1, BaseIs, ConcatProperties
    <3> QED
      BY <3>2, ConcatProperties
  <2>5. LoopInv(t, e, w \o (SubSeq(t, c + 1, a) \o Base), every)
    BY <2>3, <1>4, <1>8, SwappedLink
  <2> QED
    BY <2>2, <2>4, <2>5, <1>5
<1> QED
  BY <1>6, <1>7, <1>8

\* When no separator is left, what is written and what is left make the answer.
LEMMA LastPart ==
  ASSUME NEW t \in Seq(Characters), NEW c \in 0 .. Len(t), NEW w \in Seq(Characters),
         NEW every \in BOOLEAN, LoopInv(t, c, w, every), FindSeparator(t, c) = {}
  PROVE  /\ HoldsNoLink(Whole(t, c, w))
         /\ every => \A i, j \in DOMAIN Whole(t, c, w) :
                       UrlAt(Whole(t, c, w), i, j) => Whole(t, c, w)[j] = "P"
         /\ ~every /\ NoTargetIn(t) => Whole(t, c, w) = t
<1>1. PICK l \in Nat, v \in Seq(Characters) :
        /\ l = Len(w) /\ v = Whole(t, c, w)
        /\ Len(v) = l + (Len(t) - c)
        /\ \A n \in 1 .. l : v[n] = w[n]
        /\ \A n \in c + 1 .. Len(t) : v[l + (n - c)] = t[n]
  BY WholeAfter
<1>2. Swept(v, l) /\ (every => OnlyProxy(v, l))
  BY <1>1 DEF LoopInv
<1>3. DOMAIN v = 1 .. Len(v)
  OBVIOUS
<1>4. ASSUME NEW i \in l + 1 .. Len(v), NEW j \in 1 .. Len(v), UrlAt(v, i, j)
      PROVE  FALSE
  <2>1. UrlShape(v, i, j)
    <3>1. i \in 1 .. Len(v) + 1 /\ j \in 1 .. Len(v) + 1
      OBVIOUS
    <3> QED
      BY <3>1, <1>4, UrlIs
  <2>2. i < j - 3 /\ v[j - 3] = ":" /\ v[(j - 3) + 1] = "/" /\ v[(j - 3) + 2] = "/"
    BY <2>1 DEF UrlShape, SeparatorAt
  <2>3. PICK k \in c + 1 .. Len(t) - 2 : l + (k - c) = j - 3
    <3>1. PICK d \in Nat : d = Len(t) - c /\ Len(v) = l + d
      <4>1. Len(t) - c \in Nat
        OBVIOUS
      <4> QED
        BY <4>1, <1>1
    <3>2. PICK r \in 1 .. d - 2 : l + r = j - 3
      <4>1. (j - 3) - l \in 1 .. d - 2 /\ l + ((j - 3) - l) = j - 3
        BY <2>2, <3>1
      <4> QED
        BY <4>1
    <3>3. c + r \in c + 1 .. Len(t) - 2 /\ (c + r) - c = r
      BY <3>1, <3>2
    <3> QED
      BY <3>2, <3>3
  <2>4. /\ k \in c + 1 .. Len(t) /\ k + 1 \in c + 1 .. Len(t) /\ k + 2 \in c + 1 .. Len(t)
        /\ l + ((k + 1) - c) = (j - 3) + 1 /\ l + ((k + 2) - c) = (j - 3) + 2
    BY <2>3
  <2>5. SeparatorAt(t, k)
    BY <2>2, <2>3, <2>4, <1>1 DEF SeparatorAt
  <2> QED
    BY <2>3, <2>5, NoneFound
<1>5. \A i \in 1 .. Len(v) : i \in 1 .. l \/ i \in l + 1 .. Len(v)
  OBVIOUS
<1>6. HoldsNoLink(v)
  <2>1. ASSUME NEW i \in 1 .. Len(v), TargetLinkAt(v, i)
        PROVE  Buried(v, i)
    <3>1. PICK j \in i .. Len(v) : UrlAt(v, i, j)
      BY <2>1 DEF TargetLinkAt
    <3>2. j \in 1 .. Len(v)
      OBVIOUS
    <3>3. i \in 1 .. l
      BY <3>1, <3>2, <1>4, <1>5
    <3> QED
      BY <3>3, <2>1, <1>2 DEF Swept
  <2> QED
    BY <2>1, <1>3 DEF HoldsNoLink
<1>7. ASSUME every
      PROVE  \A i, j \in DOMAIN v : UrlAt(v, i, j) => v[j] = "P"
  <2>1. ASSUME NEW i \in 1 .. Len(v), NEW j \in 1 .. Len(v), UrlAt(v, i, j)
        PROVE  v[j] = "P"
    <3>1. i \in 1 .. l
      BY <2>1, <1>4, <1>5
    <3> QED
      BY <3>1, <2>1, <1>2, <1>7 DEF OnlyProxy
  <2> QED
    BY <2>1, <1>3
<1>8. ASSUME ~every, NoTargetIn(t)
      PROVE  v = t
  <2>1. w = SubSeq(t, 1, c)
    BY <1>8 DEF LoopInv
  <2>2. 1 \in 1 .. Len(t) + 1 /\ c \in 1 - 1 .. Len(t) /\ Len(t) \in c .. Len(t)
    OBVIOUS
  <2>3. SubSeq(t, 1, c) \o SubSeq(t, c + 1, Len(t)) = SubSeq(t, 1, Len(t))
    BY <2>2, ConcatAdjacentSubSeq
  <2>4. SubSeq(t, 1, Len(t)) = t
    BY SubSeqFull
  <2> QED
    BY <2>1, <2>3, <2>4, <1>1 DEF Whole
<1> QED
  BY <1>1, <1>6, <1>7, <1>8

-----------------------------------------------------------------------------
(* The loop.                                                               *)

SwapTypeOK ==
  /\ phase \in {"swapping", "swapped"}
  /\ text \in Seq(Characters) /\ all \in BOOLEAN
  /\ cursor \in 0 .. Len(text) /\ written \in Seq(Characters)

\* The inductive invariant.
SwapInv ==
  /\ SwapTypeOK
  /\ phase = "swapping" => LoopInv(text, cursor, written, all)
  /\ NoTargetLinkLeft
  /\ ForeignKept

\* Before the first turn, whatever the text.
SwapStarted ==
  /\ phase = "swapping"
  /\ text \in Seq(Characters) /\ all \in BOOLEAN
  /\ cursor = 0 /\ written = <<>>

\* SwapInv holds of the loop before its first turn,
LEMMA SwapStarts == SwapStarted => SwapInv
<1> SUFFICES ASSUME SwapStarted
             PROVE  SwapInv
  OBVIOUS
<1>1. /\ phase = "swapping" /\ text \in Seq(Characters) /\ all \in BOOLEAN
      /\ cursor = 0 /\ written = <<>>
  BY DEF SwapStarted
<1>2. <<>> \in Seq(Characters) /\ Len(<<>>) = 0
  OBVIOUS
<1>3. 0 \in 0 .. Len(text)
  BY <1>1
<1>4. SwapTypeOK
  BY <1>1, <1>2, <1>3 DEF SwapTypeOK
<1>5. LoopInv(text, 0, <<>>, all)
  <2>1. AtEdge(text, 0, <<>>)
    BY <1>2 DEF AtEdge
  <2>2. SubSeq(text, 1, 0) = <<>>
    BY SubSeqEmpty
  <2> QED
    BY <2>1, <2>2, <1>2 DEF LoopInv, Swept, OnlyProxy
<1> QED
  BY <1>1, <1>4, <1>5 DEF SwapInv, NoTargetLinkLeft, ForeignKept

LEMMA SwapInitially == SwapInit => SwapInv
<1>1. SwapInit => SwapStarted
  BY LinkTextAssumption DEF SwapInit, SwapStarted
<1> QED
  BY <1>1, SwapStarts

\* and every turn, and the end of the loop, keeps it.
LEMMA SwapInductive == SwapInv /\ [SwapNext]_<<phase, swapVars>> => SwapInv'
<1> SUFFICES ASSUME SwapInv, [SwapNext]_<<phase, swapVars>>
             PROVE  SwapInv'
  OBVIOUS
<1>1. SwapTypeOK
  BY DEF SwapInv
<1>2. text \in Seq(Characters) /\ cursor \in 0 .. Len(text)
  BY <1>1 DEF SwapTypeOK
<1>3. written \in Seq(Characters) /\ all \in BOOLEAN
  BY <1>1 DEF SwapTypeOK
<1>4. CASE SwapTurn
  <2>1. phase = "swapping" /\ UNCHANGED <<phase, text, all>>
    BY <1>4 DEF SwapTurn
  <2>2. PICK sep \in FindSeparator(text, cursor) :
          /\ cursor' = Turn(text, cursor, sep, all).cursor
          /\ written' = written \o Turn(text, cursor, sep, all).out
    BY <1>4 DEF SwapTurn
  <2>3. LoopInv(text, cursor, written, all)
    BY <2>1 DEF SwapInv
  <2>4. /\ cursor' \in 0 .. Len(text) /\ written' \in Seq(Characters)
        /\ LoopInv(text, cursor', written', all)
    BY <2>2, <2>3, <1>2, <1>3, TurnKeeps
  <2>5. SwapTypeOK'
    BY <2>1, <2>4, <1>1 DEF SwapTypeOK
  <2>6. LoopInv(text, cursor, written, all)'
    BY <2>1, <2>4
  <2> QED
    BY <2>1, <2>5, <2>6 DEF SwapInv, NoTargetLinkLeft, ForeignKept
<1>5. CASE EndSwap
  <2>1. /\ phase = "swapping" /\ FindSeparator(text, cursor) = {}
        /\ phase' = "swapped" /\ UNCHANGED <<text, all, cursor>>
        /\ written' = Whole(text, cursor, written)
    BY <1>5 DEF EndSwap, Whole
  <2>2. LoopInv(text, cursor, written, all)
    BY <2>1 DEF SwapInv
  <2>3. /\ HoldsNoLink(written')
        /\ all => \A i, j \in DOMAIN written' : UrlAt(written', i, j) => written'[j] = "P"
        /\ ~all /\ NoTargetIn(text) => written' = text
    BY <2>1, <2>2, <1>2, <1>3, LastPart
  <2>4. written' \in Seq(Characters)
    BY <2>1, <1>2, <1>3, WholeIs
  <2>5. SwapTypeOK'
    BY <2>1, <2>4, <1>1 DEF SwapTypeOK
  <2>6. NoTargetLinkLeft'
    BY <2>1, <2>3 DEF NoTargetLinkLeft
  <2>7. ForeignKept'
    BY <2>1, <2>3 DEF ForeignKept, NoTargetIn
  <2> QED
    BY <2>1, <2>5, <2>6, <2>7 DEF SwapInv
<1>6. CASE UNCHANGED <<phase, swapVars>>
  BY <1>6 DEF SwapInv, SwapTypeOK, NoTargetLinkLeft, ForeignKept, swapVars
<1> QED
  BY <1>4, <1>5, <1>6 DEF SwapNext

LEMMA SwapInvHolds == SwapSpec => []SwapInv
BY SwapInitially, SwapInductive, PTL DEF SwapSpec

\* The slices of swap_authorities are in order, for any text: nothing panics.
THEOREM NoSlicePanics == SwapSpec => []SlicesInOrder
<1>1. SwapInv => SlicesInOrder
  <2> SUFFICES ASSUME SwapInv, phase = "swapping", NEW sep \in FindSeparator(text, cursor)
               PROVE  /\ cursor <= SchemeStart(text, sep)
                      /\ SchemeStart(text, sep) <= sep
                      /\ sep + 3 <= AuthorityEnd(text, sep + 3)
    BY DEF SlicesInOrder
  <2>1. text \in Seq(Characters) /\ cursor \in 0 .. Len(text) /\ written \in Seq(Characters)
    BY DEF SwapInv, SwapTypeOK
  <2>2. AtEdge(text, cursor, written)
    BY DEF SwapInv, LoopInv
  <2>3. SchemeStart(text, sep) \in cursor .. sep /\ sep \in cursor .. Len(text) - 3
    BY <2>1, <2>2, StartInOrder, FoundIs
  <2>4. AuthorityEnd(text, sep + 3) \in sep + 3 .. Len(text)
    BY <2>1, LinkEnd
  <2> QED
    BY <2>1, <2>3, <2>4
<1> QED
  BY <1>1, SwapInvHolds, PTL

\* A swapped text of any length holds no link to the BMC but inside the authority of
\* another, and a swapped Location names no one but the proxy.
THEOREM NoLinkIsLeft == SwapSpec => []NoTargetLinkLeft
<1>1. SwapInv => NoTargetLinkLeft
  BY DEF SwapInv
<1> QED
  BY <1>1, SwapInvHolds, PTL

\* A text of any length in which nothing names the BMC comes back as it was.
THEOREM ForeignIsKept == SwapSpec => []ForeignKept
<1>1. SwapInv => ForeignKept
  BY DEF SwapInv
<1> QED
  BY <1>1, SwapInvHolds, PTL

-----------------------------------------------------------------------------
(* Sequences, and above all their prefixes.                                *)

\* The first n elements, and those after them.
LEMMA CutIs ==
  ASSUME NEW S, NEW s \in Seq(S), NEW n \in 0 .. Len(s)
  PROVE  /\ SubSeq(s, 1, n) \in Seq(S)
         /\ Len(SubSeq(s, 1, n)) = n
         /\ \A i \in 1 .. n : SubSeq(s, 1, n)[i] = s[i]
<1>1. n \in Int /\ 1 \in Int /\ \A i \in 1 .. n : s[i] \in S
  OBVIOUS
<1>2. /\ SubSeq(s, 1, n) \in Seq(S)
      /\ Len(SubSeq(s, 1, n)) = IF 1 <= n THEN n - 1 + 1 ELSE 0
      /\ \A i \in 1 .. n - 1 + 1 : SubSeq(s, 1, n)[i] = s[1 + i - 1]
  BY <1>1, SubSeqProperties
<1> QED
  BY <1>2

LEMMA RestOf ==
  ASSUME NEW S, NEW s \in Seq(S), NEW n \in 0 .. Len(s)
  PROVE  /\ SubSeq(s, n + 1, Len(s)) \in Seq(S)
         /\ Len(SubSeq(s, n + 1, Len(s))) = Len(s) - n
         /\ \A i \in 1 .. Len(s) - n : SubSeq(s, n + 1, Len(s))[i] = s[n + i]
<1>1. n + 1 \in Int /\ Len(s) \in Int /\ \A i \in n + 1 .. Len(s) : s[i] \in S
  OBVIOUS
<1>2. /\ SubSeq(s, n + 1, Len(s)) \in Seq(S)
      /\ Len(SubSeq(s, n + 1, Len(s))) = IF n + 1 <= Len(s) THEN Len(s) - (n + 1) + 1 ELSE 0
      /\ \A i \in 1 .. Len(s) - (n + 1) + 1 : SubSeq(s, n + 1, Len(s))[i] = s[(n + 1) + i - 1]
  BY <1>1, SubSeqProperties
<1> QED
  BY <1>2

LEMMA PrefixIs ==
  ASSUME NEW S, NEW s \in Seq(S), NEW t \in Seq(S)
  PROVE  IsPrefix(s, t) <=> Len(s) <= Len(t) /\ \A i \in 1 .. Len(s) : s[i] = t[i]
<1>1. SubSeq(s, 1, Len(s)) = s
  BY SubSeqFull
<1>2. CASE Len(s) <= Len(t)
  <2>1. Len(s) \in 0 .. Len(t)
    BY <1>2
  <2>2. /\ SubSeq(t, 1, Len(s)) \in Seq(S)
        /\ Len(SubSeq(t, 1, Len(s))) = Len(s)
        /\ \A i \in 1 .. Len(s) : SubSeq(t, 1, Len(s))[i] = t[i]
    BY <2>1, CutIs
  <2>3. ASSUME \A i \in 1 .. Len(s) : s[i] = t[i]
        PROVE  SubSeq(t, 1, Len(s)) = s
    BY <2>2, <2>3, SeqEqual
  <2> QED
    BY <1>1, <1>2, <2>2, <2>3 DEF IsPrefix
<1> QED
  BY <1>2 DEF IsPrefix

LEMMA PrefixCut ==
  ASSUME NEW S, NEW s \in Seq(S), NEW n \in 0 .. Len(s)
  PROVE  IsPrefix(SubSeq(s, 1, n), s)
<1>1. /\ SubSeq(s, 1, n) \in Seq(S)
      /\ Len(SubSeq(s, 1, n)) = n
      /\ \A i \in 1 .. n : SubSeq(s, 1, n)[i] = s[i]
  BY CutIs
<1>2. /\ Len(SubSeq(s, 1, n)) <= Len(s)
      /\ \A i \in 1 .. Len(SubSeq(s, 1, n)) : SubSeq(s, 1, n)[i] = s[i]
  BY <1>1
<1> QED
  BY <1>1, <1>2, PrefixIs

\* A prefix is determined by its length.
LEMMA PrefixSame ==
  ASSUME NEW S, NEW s \in Seq(S), NEW t \in Seq(S), IsPrefix(s, t)
  PROVE  Len(s) \in 0 .. Len(t) /\ s = SubSeq(t, 1, Len(s))
<1>1. Len(s) <= Len(t) /\ SubSeq(s, 1, Len(s)) = SubSeq(t, 1, Len(s))
  BY DEF IsPrefix
<1> QED
  BY <1>1, SubSeqFull

LEMMA PrefixOrder ==
  ASSUME NEW S, NEW s \in Seq(S), NEW t \in Seq(S), NEW u \in Seq(S)
  PROVE  /\ IsPrefix(s, s)
         /\ IsPrefix(s, t) /\ IsPrefix(t, u) => IsPrefix(s, u)
         /\ IsPrefix(s, t) /\ Len(s) = Len(t) => s = t
         /\ IsPrefix(s, u) /\ IsPrefix(t, u) /\ Len(s) <= Len(t) => IsPrefix(s, t)
         /\ IsPrefix(<<>>, s)
<1>1. IsPrefix(s, s)
  BY PrefixIs
<1>2. ASSUME IsPrefix(s, t), IsPrefix(t, u)
      PROVE  IsPrefix(s, u)
  <2>1. /\ Len(s) <= Len(t) /\ \A i \in 1 .. Len(s) : s[i] = t[i]
        /\ Len(t) <= Len(u) /\ \A i \in 1 .. Len(t) : t[i] = u[i]
    BY <1>2, PrefixIs
  <2>2. Len(s) <= Len(u) /\ \A i \in 1 .. Len(s) : s[i] = u[i]
    BY <2>1
  <2> QED
    BY <2>2, PrefixIs
<1>3. ASSUME IsPrefix(s, t), Len(s) = Len(t)
      PROVE  s = t
  <2>1. \A i \in 1 .. Len(s) : s[i] = t[i]
    BY <1>3, PrefixIs
  <2> QED
    BY <2>1, <1>3, SeqEqual
<1>4. ASSUME IsPrefix(s, u), IsPrefix(t, u), Len(s) <= Len(t)
      PROVE  IsPrefix(s, t)
  <2>1. /\ \A i \in 1 .. Len(s) : s[i] = u[i]
        /\ \A i \in 1 .. Len(t) : t[i] = u[i]
    BY <1>4, PrefixIs
  <2>2. \A i \in 1 .. Len(s) : s[i] = t[i]
    BY <2>1, <1>4
  <2> QED
    BY <2>2, <1>4, PrefixIs
<1>5. IsPrefix(<<>>, s)
  <2>1. <<>> \in Seq(S) /\ Len(<<>>) = 0
    OBVIOUS
  <2>2. Len(<<>>) <= Len(s) /\ \A i \in 1 .. Len(<<>>) : <<>>[i] = s[i]
    BY <2>1
  <2> QED
    BY <2>1, <2>2, PrefixIs
<1> QED
  BY <1>1, <1>2, <1>3, <1>4, <1>5

LEMMA FrontIs ==
  ASSUME NEW S, NEW s \in Seq(S), s # <<>>
  PROVE  /\ Len(s) \in Nat \ {0}
         /\ Front(s) \in Seq(S) /\ Len(Front(s)) = Len(s) - 1
         /\ \A i \in 1 .. Len(s) - 1 : Front(s)[i] = s[i]
         /\ Last(s) \in S /\ Last(s) = s[Len(s)]
         /\ s = Append(Front(s), Last(s))
         /\ Front(s) = SubSeq(s, 1, Len(s) - 1)
<1>1. Len(s) \in Nat \ {0}
  BY EmptySeq
<1>2. Len(s) - 1 \in 0 .. Len(s)
  BY <1>1
<1>3. /\ Front(s) \in Seq(S) /\ Len(Front(s)) = Len(s) - 1
      /\ \A i \in 1 .. Len(s) - 1 : Front(s)[i] = s[i]
  BY <1>2, CutIs DEF Front
<1>4. Last(s) \in S /\ Last(s) = s[Len(s)]
  BY <1>1 DEF Last
<1>5. s = Append(Front(s), Last(s))
  <2>1. /\ Append(Front(s), Last(s)) \in Seq(S)
        /\ Len(Append(Front(s), Last(s))) = Len(Front(s)) + 1
        /\ \A i \in 1 .. Len(Front(s)) : Append(Front(s), Last(s))[i] = Front(s)[i]
        /\ Append(Front(s), Last(s))[Len(Front(s)) + 1] = Last(s)
    BY <1>3, <1>4, AppendProperties
  <2>2. Len(Append(Front(s), Last(s))) = Len(s)
    BY <2>1, <1>1, <1>3
  <2>3. \A i \in 1 .. Len(s) : s[i] = Append(Front(s), Last(s))[i]
    <3>1. \A i \in 1 .. Len(s) : i \in 1 .. Len(s) - 1 \/ i = Len(s)
      BY <1>1
    <3>2. (Len(s) - 1) + 1 = Len(s)
      BY <1>1
    <3> QED
      BY <2>1, <1>3, <1>4, <3>1, <3>2
  <2> QED
    BY <2>1, <2>2, <2>3, SeqEqual
<1> QED
  BY <1>1, <1>3, <1>4, <1>5 DEF Front

LEMMA FrontAppend ==
  ASSUME NEW S, NEW s \in Seq(S), NEW e \in S
  PROVE  /\ Append(s, e) \in Seq(S) /\ Append(s, e) # <<>>
         /\ Len(Append(s, e)) = Len(s) + 1
         /\ \A i \in 1 .. Len(s) : Append(s, e)[i] = s[i]
         /\ Append(s, e)[Len(s) + 1] = e
         /\ Front(Append(s, e)) = s /\ Last(Append(s, e)) = e
         /\ IsPrefix(s, Append(s, e))
<1> DEFINE t == Append(s, e)
<1>1. /\ t \in Seq(S) /\ t # <<>> /\ Len(t) = Len(s) + 1
      /\ \A i \in 1 .. Len(s) : t[i] = s[i]
      /\ t[Len(s) + 1] = e
  BY AppendProperties
<1> HIDE DEF t
<1>2. /\ Front(t) \in Seq(S) /\ Len(Front(t)) = Len(t) - 1
      /\ \A i \in 1 .. Len(t) - 1 : Front(t)[i] = t[i]
      /\ Last(t) = t[Len(t)]
  BY <1>1, FrontIs
<1>3. Front(t) = s
  <2>1. Len(Front(t)) = Len(s) /\ \A i \in 1 .. Len(s) : Front(t)[i] = s[i]
    BY <1>1, <1>2
  <2> QED
    BY <2>1, <1>2, SeqEqual
<1>4. Last(t) = e
  BY <1>1, <1>2
<1>5. IsPrefix(s, t)
  <2>1. Len(s) <= Len(t)
    BY <1>1
  <2> QED
    BY <1>1, <2>1, PrefixIs
<1> QED
  BY <1>1, <1>3, <1>4, <1>5 DEF t

\* What is a prefix of one less is a prefix of the whole, and not the whole.
LEMMA PrefixFront ==
  ASSUME NEW S, NEW s \in Seq(S), NEW t \in Seq(S), t # <<>>
  PROVE  /\ IsPrefix(s, Front(t)) <=> IsPrefix(s, t) /\ s # t
         /\ IsPrefix(Front(t), t)
<1>1. /\ Len(t) \in Nat \ {0} /\ Front(t) \in Seq(S) /\ Len(Front(t)) = Len(t) - 1
      /\ \A i \in 1 .. Len(t) - 1 : Front(t)[i] = t[i]
  BY FrontIs
<1>2. ASSUME IsPrefix(s, Front(t))
      PROVE  IsPrefix(s, t) /\ s # t
  <2>1. Len(s) <= Len(t) - 1 /\ \A i \in 1 .. Len(s) : s[i] = Front(t)[i]
    BY <1>1, <1>2, PrefixIs
  <2>2. Len(s) <= Len(t) /\ \A i \in 1 .. Len(s) : s[i] = t[i]
    BY <2>1, <1>1
  <2> QED
    BY <2>1, <2>2, PrefixIs
<1>3. ASSUME IsPrefix(s, t), s # t
      PROVE  IsPrefix(s, Front(t))
  <2>1. Len(s) <= Len(t) /\ \A i \in 1 .. Len(s) : s[i] = t[i]
    BY <1>3, PrefixIs
  <2>2. Len(s) # Len(t)
    BY <1>3, PrefixOrder
  <2>3. Len(s) <= Len(Front(t)) /\ \A i \in 1 .. Len(s) : s[i] = Front(t)[i]
    BY <2>1, <2>2, <1>1
  <2> QED
    BY <2>3, <1>1, PrefixIs
<1>4. IsPrefix(Front(t), t)
  BY <1>1, PrefixIs
<1> QED
  BY <1>2, <1>3, <1>4

\* A prefix and the rest.
LEMMA Split ==
  ASSUME NEW S, NEW s \in Seq(S), NEW t \in Seq(S), IsPrefix(s, t)
  PROVE  /\ SubSeq(t, Len(s) + 1, Len(t)) \in Seq(S)
         /\ Len(SubSeq(t, Len(s) + 1, Len(t))) = Len(t) - Len(s)
         /\ s \o SubSeq(t, Len(s) + 1, Len(t)) = t
<1>1. Len(s) \in 0 .. Len(t) /\ s = SubSeq(t, 1, Len(s))
  BY PrefixSame
<1>2. /\ SubSeq(t, Len(s) + 1, Len(t)) \in Seq(S)
      /\ Len(SubSeq(t, Len(s) + 1, Len(t))) = Len(t) - Len(s)
  BY <1>1, RestOf
<1>3. 1 \in 1 .. Len(t) + 1 /\ Len(s) \in 1 - 1 .. Len(t) /\ Len(t) \in Len(s) .. Len(t)
  BY <1>1
<1>4. SubSeq(t, 1, Len(s)) \o SubSeq(t, Len(s) + 1, Len(t)) = SubSeq(t, 1, Len(t))
  BY <1>3, ConcatAdjacentSubSeq
<1> QED
  BY <1>1, <1>2, <1>4, SubSeqFull

LEMMA Joined ==
  ASSUME NEW S, NEW s \in Seq(S), NEW t \in Seq(S)
  PROVE  /\ s \o t \in Seq(S) /\ Len(s \o t) = Len(s) + Len(t)
         /\ IsPrefix(s, s \o t)
         /\ SubSeq(s \o t, Len(s) + 1, Len(s \o t)) = t
         /\ t # <<>> => /\ s \o t # <<>>
                        /\ Front(s \o t) = s \o Front(t)
                        /\ Last(s \o t) = Last(t)
<1> DEFINE u == s \o t
<1>1. /\ u \in Seq(S) /\ Len(u) = Len(s) + Len(t)
      /\ \A i \in 1 .. Len(s) + Len(t) : u[i] = IF i <= Len(s) THEN s[i] ELSE t[i - Len(s)]
  BY ConcatProperties
<1> HIDE DEF u
<1>2. IsPrefix(s, u)
  <2>1. Len(s) \in Nat /\ Len(t) \in Nat
    OBVIOUS
  <2>2. \A i \in 1 .. Len(s) : i \in 1 .. Len(s) + Len(t) /\ i <= Len(s)
    BY <2>1
  <2>3. Len(s) <= Len(u) /\ \A i \in 1 .. Len(s) : s[i] = u[i]
    BY <2>1, <2>2, <1>1
  <2> QED
    BY <2>3, <1>1, PrefixIs
<1>3. SubSeq(u, Len(s) + 1, Len(u)) = t
  <2>1. Len(s) \in 0 .. Len(u)
    BY <1>1
  <2>2. /\ SubSeq(u, Len(s) + 1, Len(u)) \in Seq(S)
        /\ Len(SubSeq(u, Len(s) + 1, Len(u))) = Len(u) - Len(s)
        /\ \A i \in 1 .. Len(u) - Len(s) : SubSeq(u, Len(s) + 1, Len(u))[i] = u[Len(s) + i]
    BY <2>1, <1>1, RestOf
  <2>3. Len(u) - Len(s) = Len(t)
    BY <1>1
  <2>4. \A i \in 1 .. Len(t) : u[Len(s) + i] = t[i]
    <3> TAKE i \in 1 .. Len(t)
    <3>1. Len(s) + i \in 1 .. Len(s) + Len(t) /\ ~(Len(s) + i <= Len(s)) /\ (Len(s) + i) - Len(s) = i
      OBVIOUS
    <3> QED
      BY <3>1, <1>1
  <2> QED
    BY <2>2, <2>3, <2>4, SeqEqual
<1>4. ASSUME t # <<>>
      PROVE  u # <<>> /\ Front(u) = s \o Front(t) /\ Last(u) = Last(t)
  <2>1. /\ Len(t) \in Nat \ {0} /\ Front(t) \in Seq(S) /\ Len(Front(t)) = Len(t) - 1
        /\ \A i \in 1 .. Len(t) - 1 : Front(t)[i] = t[i]
        /\ Last(t) = t[Len(t)]
    BY <1>4, FrontIs
  <2>2. u # <<>>
    BY <2>1, <1>1
  <2>3. /\ Front(u) \in Seq(S) /\ Len(Front(u)) = Len(u) - 1
        /\ \A i \in 1 .. Len(u) - 1 : Front(u)[i] = u[i]
        /\ Last(u) = u[Len(u)]
    BY <2>2, <1>1, FrontIs
  <2>4. /\ s \o Front(t) \in Seq(S) /\ Len(s \o Front(t)) = Len(s) + Len(Front(t))
        /\ \A i \in 1 .. Len(s) + Len(Front(t)) :
              (s \o Front(t))[i] = IF i <= Len(s) THEN s[i] ELSE Front(t)[i - Len(s)]
    BY <2>1, ConcatProperties
  <2>5. Len(Front(u)) = Len(s \o Front(t))
    BY <2>1, <2>3, <2>4, <1>1
  <2>6. ASSUME NEW i \in 1 .. Len(Front(u))
        PROVE  Front(u)[i] = (s \o Front(t))[i]
    <3>1. i \in 1 .. Len(u) - 1 /\ i \in 1 .. Len(s) + Len(Front(t)) /\ i \in 1 .. Len(s) + Len(t)
      BY <2>1, <2>3, <2>6, <1>1
    <3>2. Front(u)[i] = IF i <= Len(s) THEN s[i] ELSE t[i - Len(s)]
      BY <3>1, <2>3, <1>1
    <3>3. ~(i <= Len(s)) => i - Len(s) \in 1 .. Len(t) - 1
      BY <3>1, <2>1
    <3> QED
      BY <3>1, <3>2, <3>3, <2>1, <2>4
  <2>7. Front(u) = s \o Front(t)
    BY <2>3, <2>4, <2>5, <2>6, SeqEqual
  <2>8. Last(u) = Last(t)
    <3>1. Len(u) \in 1 .. Len(s) + Len(t) /\ ~(Len(u) <= Len(s)) /\ Len(u) - Len(s) = Len(t)
      BY <1>1, <2>1
    <3> QED
      BY <3>1, <2>1, <2>3, <1>1
  <2> QED
    BY <2>2, <2>7, <2>8
<1> QED
  BY <1>1, <1>2, <1>3, <1>4 DEF u

-----------------------------------------------------------------------------
(* Documents: what their being trees says of their places.                 *)

LEMMA TreeIs ==
  ASSUME NEW d, Tree(d)
  PROVE  /\ IsFiniteSet(DOMAIN d) /\ DOMAIN d \subseteq Seq(Steps) /\ <<>> \in DOMAIN d
         /\ \A p \in DOMAIN d : p # <<>> => /\ Front(p) \in DOMAIN d
                                            /\ Holds(d[Front(p)], Last(p))
BY DEF Tree

\* Above every place there is one, down to the root.
LEMMA TreeAbove ==
  ASSUME NEW d, Tree(d), NEW p \in DOMAIN d, NEW n \in 0 .. Len(p)
  PROVE  /\ SubSeq(p, 1, n) \in DOMAIN d
         /\ n < Len(p) => /\ Holds(d[SubSeq(p, 1, n)], p[n + 1])
                          /\ p[n + 1] \in Steps
                          /\ SubSeq(p, 1, n + 1) = Append(SubSeq(p, 1, n), p[n + 1])
<1>1. p \in Seq(Steps) /\ Len(p) \in Nat
  BY TreeIs
<1>2. ASSUME NEW m \in 0 .. Len(p) - 1
      PROVE  LET q == SubSeq(p, 1, m + 1)
             IN /\ q \in Seq(Steps) /\ q # <<>> /\ Front(q) = SubSeq(p, 1, m) /\ Last(q) = p[m + 1]
                /\ p[m + 1] \in Steps /\ q = Append(SubSeq(p, 1, m), p[m + 1])
  <2> DEFINE q == SubSeq(p, 1, m + 1)
             r == SubSeq(p, 1, m)
  <2>1. m + 1 \in 0 .. Len(p) /\ m \in 0 .. Len(p) /\ m + 1 \in 1 .. m + 1 /\ m + 1 \in 1 .. Len(p)
    BY <1>1
  <2>2. /\ q \in Seq(Steps) /\ Len(q) = m + 1 /\ \A i \in 1 .. m + 1 : q[i] = p[i]
        /\ r \in Seq(Steps) /\ Len(r) = m /\ \A i \in 1 .. m : r[i] = p[i]
    BY <1>1, <2>1, CutIs
  <2> HIDE DEF q, r
  <2>3. q # <<>>
    BY <2>2
  <2>4. /\ Front(q) \in Seq(Steps) /\ Len(Front(q)) = Len(q) - 1
        /\ \A i \in 1 .. Len(q) - 1 : Front(q)[i] = q[i]
        /\ Last(q) = q[Len(q)] /\ q = Append(Front(q), Last(q)) /\ Last(q) \in Steps
    BY <2>2, <2>3, FrontIs
  <2>5. Front(q) = r
    <3>1. Len(Front(q)) = Len(r) /\ \A i \in 1 .. Len(r) : Front(q)[i] = r[i]
      BY <2>2, <2>4
    <3> QED
      BY <3>1, <2>2, <2>4, SeqEqual
  <2>6. Last(q) = p[m + 1]
    BY <2>1, <2>2, <2>4
  <2> QED
    BY <2>2, <2>3, <2>4, <2>5, <2>6 DEF q, r
<1> DEFINE bad == {m \in 0 .. Len(p) : SubSeq(p, 1, m) \notin DOMAIN d}
<1>3. bad = {}
  <2> SUFFICES ASSUME bad # {}
               PROVE  FALSE
    OBVIOUS
  <2>1. bad \in SUBSET (0 .. Len(p))
    OBVIOUS
  <2>2. PICK m \in bad : \A k \in bad : k <= m
    <3> HIDE DEF bad
    <3> QED
      BY <1>1, <2>1, GreatestOf
  <2>3. m # Len(p)
    BY <1>1, <2>2, SubSeqFull
  <2>4. m \in 0 .. Len(p) - 1 /\ m + 1 \in 0 .. Len(p)
    BY <1>1, <2>2, <2>3
  <2>5. SubSeq(p, 1, m + 1) \in DOMAIN d
    <3>1. m + 1 \notin bad
      BY <2>2, <2>4
    <3> QED
      BY <3>1, <2>4
  <2>6. Front(SubSeq(p, 1, m + 1)) \in DOMAIN d
    BY <1>2, <2>4, <2>5, TreeIs
  <2> QED
    BY <1>2, <2>2, <2>4, <2>6
<1>4. \A m \in 0 .. Len(p) : SubSeq(p, 1, m) \in DOMAIN d
  BY <1>3
<1>5. ASSUME n < Len(p)
      PROVE  /\ Holds(d[SubSeq(p, 1, n)], p[n + 1])
             /\ p[n + 1] \in Steps /\ SubSeq(p, 1, n + 1) = Append(SubSeq(p, 1, n), p[n + 1])
  <2>1. n \in 0 .. Len(p) - 1 /\ n + 1 \in 0 .. Len(p)
    BY <1>1, <1>5
  <2>2. /\ SubSeq(p, 1, n + 1) # <<>> /\ Front(SubSeq(p, 1, n + 1)) = SubSeq(p, 1, n)
        /\ Last(SubSeq(p, 1, n + 1)) = p[n + 1] /\ p[n + 1] \in Steps
        /\ SubSeq(p, 1, n + 1) = Append(SubSeq(p, 1, n), p[n + 1])
    BY <1>2, <2>1
  <2>3. SubSeq(p, 1, n + 1) \in DOMAIN d
    BY <1>4, <2>1
  <2> QED
    BY <2>2, <2>3, TreeIs
<1> QED
  BY <1>4, <1>5

\* The same of a place above another: the first step on the way leads to a child.
LEMMA TreeBetween ==
  ASSUME NEW d, Tree(d), NEW p \in DOMAIN d, NEW q \in Seq(Steps), IsPrefix(q, p)
  PROVE  /\ q \in DOMAIN d
         /\ q # p => /\ Len(q) < Len(p) /\ Holds(d[q], p[Len(q) + 1])
                     /\ p[Len(q) + 1] \in Steps
                     /\ Append(q, p[Len(q) + 1]) \in Children(d, q)
                     /\ IsPrefix(Append(q, p[Len(q) + 1]), p)
<1>1. p \in Seq(Steps)
  BY TreeIs
<1>2. Len(q) \in 0 .. Len(p) /\ q = SubSeq(p, 1, Len(q))
  BY <1>1, PrefixSame
<1>3. q \in DOMAIN d
  BY <1>2, TreeAbove
<1>4. ASSUME q # p
      PROVE  /\ Len(q) < Len(p) /\ Holds(d[q], p[Len(q) + 1])
             /\ p[Len(q) + 1] \in Steps
             /\ Append(q, p[Len(q) + 1]) \in Children(d, q)
             /\ IsPrefix(Append(q, p[Len(q) + 1]), p)
  <2>1. Len(q) < Len(p)
    <3>1. Len(q) # Len(p)
      BY <1>1, <1>4, PrefixOrder
    <3> QED
      BY <3>1, <1>1, <1>2
  <2>2. /\ Holds(d[q], p[Len(q) + 1]) /\ p[Len(q) + 1] \in Steps
        /\ SubSeq(p, 1, Len(q) + 1) = Append(q, p[Len(q) + 1])
    BY <1>2, <2>1, TreeAbove
  <2>3. Len(q) + 1 \in 0 .. Len(p)
    BY <1>1, <1>2, <2>1
  <2>4. Append(q, p[Len(q) + 1]) \in DOMAIN d
    BY <2>2, <2>3, TreeAbove
  <2>5. IsPrefix(Append(q, p[Len(q) + 1]), p)
    BY <1>1, <2>2, <2>3, PrefixCut
  <2>6. Append(q, p[Len(q) + 1]) # <<>> /\ Front(Append(q, p[Len(q) + 1])) = q
    BY <2>2, FrontAppend
  <2> QED
    BY <2>1, <2>2, <2>4, <2>5, <2>6 DEF Children
<1> QED
  BY <1>3, <1>4

\* Under what is no container there is nothing.
LEMMA LeafAlone ==
  ASSUME NEW d, Tree(d), NEW p \in DOMAIN d, NEW q \in Seq(Steps), IsPrefix(q, p),
         d[q] # Object, d[q] # Array
  PROVE  q = p
BY TreeBetween DEF Holds

-----------------------------------------------------------------------------
(* A call that fails.                                                      *)

LEMMA AllOrNothingKept == AllOrNothing /\ [UtilNext]_utilVars => AllOrNothing'
<1> SUFFICES ASSUME AllOrNothing, [UtilNext]_utilVars
             PROVE  AllOrNothing'
  OBVIOUS
<1> USE DEF AllOrNothing
<1>1. ASSUME NEW n \in 0 .. MaxPatchOps + 1, NEW list \in BOOLEAN, BeginPatch(n, list)
      PROVE  AllOrNothing'
  BY <1>1 DEF BeginPatch
<1>2. ASSUME NEW op \in Operations, Apply(op)
      PROVE  AllOrNothing'
  BY <1>2 DEF Apply
<1>3. ASSUME EndPatch \/ EndMerge \/ WriteLast \/ EndRewrite
      PROVE  AllOrNothing'
  BY <1>3 DEF EndPatch, EndMerge, WriteLast, EndRewrite, Return
<1>4. ASSUME NEW supplied \in Supplied, BeginMerge(supplied)
      PROVE  AllOrNothing'
  BY <1>4 DEF BeginMerge
<1>5. ASSUME NEW place \in todo, MergeTurn(place)
      PROVE  AllOrNothing'
  BY <1>5 DEF MergeTurn
<1>6. ASSUME NEW segments \in Paths, NEW value \in Supplied, BeginSet(segments, value)
      PROVE  AllOrNothing'
  BY <1>6 DEF BeginSet
<1>7. ASSUME StepToItem \/ StepToKey
      PROVE  AllOrNothing'
  BY <1>7 DEF StepToItem, StepToKey, OnParent
<1>8. ASSUME BeginRewrite \/ PutText
      PROVE  AllOrNothing'
  BY <1>8 DEF BeginRewrite, PutText
<1>9. ASSUME NEW place \in todo, Visit(place) \/ TakeText(place)
      PROVE  AllOrNothing'
  BY <1>9 DEF Visit, TakeText
<1>10. ASSUME Swapping
       PROVE  AllOrNothing'
  BY <1>10 DEF Swapping, SwapNext, SwapTurn, EndSwap
<1>11. ASSUME UNCHANGED utilVars
       PROVE  AllOrNothing'
  BY <1>11 DEF utilVars
<1> QED
  BY <1>1, <1>2, <1>3, <1>4, <1>5, <1>6, <1>7, <1>8, <1>9, <1>10, <1>11 DEF UtilNext

\* A call that fails, wherever it does, leaves the handler what it had given, for
\* documents of any size.
THEOREM NothingOnFailure == UtilSpec => []AllOrNothing
<1>1. UtilInit => AllOrNothing
  BY DEF UtilInit, AllOrNothing
<1> QED
  BY <1>1, AllOrNothingKept, PTL DEF UtilSpec

-----------------------------------------------------------------------------
(* The rewriting of a document.                                            *)

Contained(d) == Tree(d) /\ \A p \in DOMAIN d : d[p] \in Contents

LEMMA DocsContained ==
  ASSUME NEW d \in Docs \cup Supplied
  PROVE  Contained(d)
<1>1. Tree(d) /\ d \in [DOMAIN d -> Contents]
  BY UtilAssumption
<1> QED
  BY <1>1 DEF Contained

RewritePhases == {"visiting", "swapping", "swapped"}

\* No link at a place, or the place is yet to be visited, or its text in hand.
Due(p) ==
  \/ HoldsNoLink(copy[p].v)
  \/ \E q \in todo : IsPrefix(q, p)
  \/ p = at /\ phase # "visiting"

Rewriting ==
  /\ DOMAIN copy = DOMAIN given
  /\ todo \subseteq DOMAIN copy
  /\ \A p \in DOMAIN copy :
        /\ copy[p] \in Contents
        /\ IF copy[p].k = "text" THEN given[p].k = "text" ELSE copy[p] = given[p]
        /\ copy[p].k = "text" => Due(p)

RewriteInv ==
  /\ given \in Docs
  /\ phase = "holding" => copy = given
  /\ phase \in RewritePhases => Rewriting
  /\ phase \in {"swapping", "swapped"} => at \in DOMAIN copy /\ copy[at].k = "text" /\ SwapInv
  /\ DocumentHoldsNoLink

LEMMA RewriteInitially == UtilInit => RewriteInv
BY DEF UtilInit, RewriteInv, RewritePhases, DocumentHoldsNoLink

\* A step of another call.
LEMMA RewriteElsewhere ==
  ASSUME RewriteInv, given' = given,
         phase' \notin RewritePhases \cup {"holding", "rewritten"}
  PROVE  RewriteInv'
BY DEF RewriteInv, RewritePhases, DocumentHoldsNoLink

LEMMA RewriteBegins ==
  ASSUME RewriteInv, BeginRewrite
  PROVE  RewriteInv'
<1>1. /\ phase = "holding" /\ phase' = "visiting" /\ todo' = {<<>>}
      /\ given' = given /\ copy' = copy /\ copy = given /\ given \in Docs
  BY DEF BeginRewrite, RewriteInv
<1>2. Contained(given)
  BY <1>1, DocsContained
<1>3. <<>> \in DOMAIN given /\ DOMAIN given \subseteq Seq(Steps)
  BY <1>2, TreeIs DEF Contained
<1>4. \A p \in DOMAIN given : IsPrefix(<<>>, p)
  BY <1>3, PrefixOrder
<1>5. Rewriting'
  <2>1. \A p \in DOMAIN given : given[p] \in Contents
    BY <1>2 DEF Contained
  <2> QED
    BY <1>1, <1>3, <1>4, <2>1 DEF Rewriting, Due
<1> QED
  BY <1>1, <1>5 DEF RewriteInv, RewritePhases, DocumentHoldsNoLink

\* The places below a container are those below its items and values.
LEMMA RewriteVisits ==
  ASSUME RewriteInv, NEW place \in todo, Visit(place)
  PROVE  RewriteInv'
<1>1. /\ phase = "visiting" /\ phase' = phase /\ copy[place].k # "text"
      /\ todo' = (todo \ {place}) \cup Children(copy, place)
      /\ given' = given /\ copy' = copy /\ doc' = doc /\ given \in Docs
  BY DEF Visit, RewriteInv
<1>2. Rewriting
  BY <1>1 DEF RewriteInv, RewritePhases
<1>3. Tree(given) /\ DOMAIN copy = DOMAIN given /\ place \in DOMAIN given
  BY <1>1, <1>2, DocsContained DEF Rewriting, Contained
<1>4. DOMAIN given \subseteq Seq(Steps) /\ Children(copy, place) = Children(given, place)
  BY <1>3, TreeIs DEF Children
<1>5. ASSUME NEW p \in DOMAIN copy, copy[p].k = "text"
      PROVE  Due(p)'
  <2>1. HoldsNoLink(copy[p].v) \/ \E q \in todo : IsPrefix(q, p)
    BY <1>1, <1>2, <1>5 DEF Rewriting, Due
  <2>2. CASE HoldsNoLink(copy[p].v)
    BY <1>1, <2>2 DEF Due
  <2>3. ASSUME NEW q \in todo, IsPrefix(q, p), q # place
        PROVE  Due(p)'
    BY <1>1, <2>3 DEF Due
  <2>4. CASE IsPrefix(place, p)
    <3>1. place # p
      BY <1>1, <1>5
    <3>2. \E q \in Children(given, place) : IsPrefix(q, p)
      BY <1>3, <1>4, <1>5, <2>4, <3>1, TreeBetween
    <3> QED
      BY <1>1, <1>4, <3>2 DEF Due
  <2> QED
    BY <2>1, <2>2, <2>3, <2>4
<1>6. Rewriting'
  <2>1. todo' \subseteq DOMAIN copy
    BY <1>1, <1>2 DEF Rewriting, Children
  <2> QED
    BY <1>1, <1>2, <1>5, <2>1 DEF Rewriting
<1> QED
  BY <1>1, <1>6 DEF RewriteInv, RewritePhases, DocumentHoldsNoLink

LEMMA SwapStartsNext == SwapStarted' => SwapInv'
BY SwapStarts, PTL

\* A text is alone at its place.
LEMMA RewriteTakes ==
  ASSUME RewriteInv, NEW place \in todo, TakeText(place)
  PROVE  RewriteInv'
<1>1. /\ phase = "visiting" /\ phase' = "swapping" /\ copy[place].k = "text"
      /\ at' = place /\ todo' = todo \ {place}
      /\ given' = given /\ copy' = copy /\ doc' = doc /\ given \in Docs
      /\ text' = copy[place].v /\ all' = FALSE /\ cursor' = 0 /\ written' = <<>>
  BY DEF TakeText, RewriteInv
<1>2. Rewriting
  BY <1>1 DEF RewriteInv, RewritePhases
<1>3. /\ Tree(given) /\ DOMAIN copy = DOMAIN given /\ place \in DOMAIN given
      /\ given[place].k = "text" /\ copy[place] \in Contents
  BY <1>1, <1>2, DocsContained DEF Rewriting, Contained
<1>4. DOMAIN given \subseteq Seq(Steps)
  BY <1>3, TreeIs
<1>5. \A p \in DOMAIN given : IsPrefix(place, p) => place = p
  BY <1>3, <1>4, LeafAlone DEF Object, Array
<1>6. ASSUME NEW p \in DOMAIN copy, copy[p].k = "text"
      PROVE  Due(p)'
  BY <1>1, <1>2, <1>3, <1>5, <1>6 DEF Rewriting, Due
<1>7. Rewriting'
  BY <1>1, <1>2, <1>6 DEF Rewriting
<1>8. SwapStarted'
  <2>1. copy[place].v \in Seq(Characters)
    BY <1>1, <1>3 DEF Contents, Null, Object, Array
  <2> QED
    BY <1>1, <2>1 DEF SwapStarted
<1>9. SwapInv'
  BY <1>8, SwapStartsNext
<1>10. place \in DOMAIN copy
  BY <1>3
<1> QED
  BY <1>1, <1>7, <1>9, <1>10 DEF RewriteInv, RewritePhases, DocumentHoldsNoLink

LEMMA RewriteSwaps ==
  ASSUME RewriteInv, Swapping
  PROVE  RewriteInv'
<1>1. /\ phase = "swapping" /\ phase' \in {"swapping", "swapped"} /\ SwapNext
      /\ given' = given /\ copy' = copy /\ doc' = doc /\ at' = at /\ todo' = todo
  BY DEF Swapping, SwapNext, SwapTurn, EndSwap
<1>2. SwapInv'
  BY <1>1, SwapInductive DEF RewriteInv
<1>3. Rewriting'
  BY <1>1 DEF RewriteInv, RewritePhases, Rewriting, Due
<1> QED
  BY <1>1, <1>2, <1>3 DEF RewriteInv, RewritePhases, DocumentHoldsNoLink

\* The text that comes back holds no link.
LEMMA RewritePuts ==
  ASSUME RewriteInv, PutText
  PROVE  RewriteInv'
<1>1. /\ phase = "swapped" /\ phase' = "visiting" /\ copy' = [copy EXCEPT ![at] = Text(written)]
      /\ given' = given /\ doc' = doc /\ todo' = todo /\ given \in Docs
  BY DEF PutText, RewriteInv
<1>2. Rewriting /\ SwapInv /\ at \in DOMAIN copy /\ copy[at].k = "text"
  BY <1>1 DEF RewriteInv, RewritePhases
<1>3. written \in Seq(Characters) /\ HoldsNoLink(written)
  BY <1>1, <1>2 DEF SwapInv, SwapTypeOK, NoTargetLinkLeft
<1>4. /\ DOMAIN copy' = DOMAIN copy /\ copy'[at] = Text(written)
      /\ \A p \in DOMAIN copy : p # at => copy'[p] = copy[p]
  BY <1>1, <1>2
<1>5. Text(written) \in Contents /\ Text(written).k = "text" /\ Text(written).v = written
  BY <1>3 DEF Contents, Text
<1>6. Rewriting'
  <2>1. ASSUME NEW p \in DOMAIN copy
        PROVE  /\ copy'[p] \in Contents
               /\ IF copy'[p].k = "text" THEN given[p].k = "text" ELSE copy'[p] = given[p]
               /\ copy'[p].k = "text" => Due(p)'
    <3>1. CASE p = at
      BY <1>2, <1>3, <1>4, <1>5, <3>1 DEF Rewriting, Due
    <3>2. CASE p # at
      BY <1>1, <1>2, <1>4, <3>2 DEF Rewriting, Due
    <3> QED
      BY <3>1, <3>2
  <2> QED
    BY <1>1, <1>2, <1>4, <2>1 DEF Rewriting
<1> QED
  BY <1>1, <1>6 DEF RewriteInv, RewritePhases, DocumentHoldsNoLink

LEMMA RewriteEnds ==
  ASSUME RewriteInv, EndRewrite
  PROVE  RewriteInv'
<1>1. /\ phase = "visiting" /\ todo = {} /\ phase' = "rewritten" /\ doc' = copy
      /\ given' = given /\ copy' = copy /\ Rewriting /\ given \in Docs
  BY DEF EndRewrite, Return, RewriteInv, RewritePhases
<1>2. DocumentHoldsNoLink'
  BY <1>1 DEF DocumentHoldsNoLink, Rewriting, Due
<1> QED
  BY <1>1, <1>2 DEF RewriteInv, RewritePhases

LEMMA RewriteKept == RewriteInv /\ [UtilNext]_utilVars => RewriteInv'
<1> SUFFICES ASSUME RewriteInv, [UtilNext]_utilVars
             PROVE  RewriteInv'
  OBVIOUS
<1>1. ASSUME NEW n \in 0 .. MaxPatchOps + 1, NEW list \in BOOLEAN, BeginPatch(n, list)
      PROVE  RewriteInv'
  BY <1>1, RewriteElsewhere DEF BeginPatch, RewritePhases
<1>2. ASSUME NEW op \in Operations, Apply(op)
      PROVE  RewriteInv'
  <2>1. phase = "patching" /\ phase' \in {"patching", "failed"} /\ given' = given
    BY <1>2 DEF Apply
  <2> QED
    BY <2>1 DEF RewriteInv, RewritePhases, DocumentHoldsNoLink
<1>3. ASSUME EndPatch \/ EndMerge \/ WriteLast
      PROVE  RewriteInv'
  BY <1>3, RewriteElsewhere DEF EndPatch, EndMerge, WriteLast, Return, RewritePhases
<1>4. ASSUME NEW supplied \in Supplied, BeginMerge(supplied)
      PROVE  RewriteInv'
  BY <1>4, RewriteElsewhere DEF BeginMerge, RewritePhases
<1>5. ASSUME NEW place \in todo, MergeTurn(place)
      PROVE  RewriteInv'
  BY <1>5 DEF MergeTurn, RewriteInv, RewritePhases, DocumentHoldsNoLink
<1>6. ASSUME NEW segments \in Paths, NEW value \in Supplied, BeginSet(segments, value)
      PROVE  RewriteInv'
  BY <1>6, RewriteElsewhere DEF BeginSet, RewritePhases
<1>7. ASSUME StepToItem \/ StepToKey
      PROVE  RewriteInv'
  BY <1>7 DEF StepToItem, StepToKey, OnParent, RewriteInv, RewritePhases, DocumentHoldsNoLink
<1>8. ASSUME NEW place \in todo, Visit(place) \/ TakeText(place)
      PROVE  RewriteInv'
  BY <1>8, RewriteVisits, RewriteTakes
<1>9. ASSUME UNCHANGED utilVars
      PROVE  RewriteInv'
  <2>1. /\ phase' = phase /\ doc' = doc /\ given' = given /\ copy' = copy /\ at' = at /\ todo' = todo
        /\ UNCHANGED <<phase, swapVars>>
    BY <1>9 DEF utilVars
  <2>2. SwapInv => SwapInv'
    BY <2>1, SwapInductive
  <2>3. Rewriting => Rewriting'
    BY <2>1 DEF Rewriting, Due
  <2> QED
    BY <2>1, <2>2, <2>3 DEF RewriteInv, DocumentHoldsNoLink
<1> QED
  BY <1>1, <1>2, <1>3, <1>4, <1>5, <1>6, <1>7, <1>8, <1>9, RewriteBegins, RewriteSwaps, RewritePuts, RewriteEnds
     DEF UtilNext

\* However deep it stands and however long it is, no text of a rewritten document
\* holds a link to the BMC, and nothing but texts is changed.
THEOREM NoLinkInDocument == UtilSpec => []DocumentHoldsNoLink
<1>1. RewriteInv => DocumentHoldsNoLink
  BY DEF RewriteInv
<1> QED
  BY <1>1, RewriteInitially, RewriteKept, PTL DEF UtilSpec

-----------------------------------------------------------------------------
(* What putting a value at a place, or taking one away, makes of a         *)
(* document.                                                               *)

LEMMA StepIs ==
  /\ \A i \in Nat : Item(i) \in Steps /\ Item(i)[1] = "item" /\ Item(i)[2] = i
  /\ \A name \in Names : Key(name) \in Steps /\ Key(name)[1] = "key" /\ Key(name)[2] = name
  /\ \A step \in Steps :
        /\ step[1] = "item" => step[2] \in Nat /\ step = Item(step[2])
        /\ step[1] # "item" => step[1] = "key" /\ step[2] \in Names /\ step = Key(step[2])
BY DEF Steps, Item, Key

LEMMA AppendJoined ==
  ASSUME NEW S, NEW s \in Seq(S), NEW t \in Seq(S), NEW e \in S
  PROVE  s \o Append(t, e) = Append(s \o t, e)
<1> DEFINE u == Append(t, e)
<1>1. u \in Seq(S) /\ u # <<>> /\ Front(u) = t /\ Last(u) = e
  BY FrontAppend
<1> HIDE DEF u
<1>2. /\ s \o u \in Seq(S) /\ s \o u # <<>>
      /\ Front(s \o u) = s \o t /\ Last(s \o u) = e
  BY <1>1, Joined
<1>3. s \o u = Append(Front(s \o u), Last(s \o u))
  BY <1>2, FrontIs
<1> QED
  BY <1>2, <1>3 DEF u

\* A function takes a finite set to no more values than it has elements.
LEMMA ImageBound ==
  ASSUME NEW S, IsFiniteSet(S), NEW f, DOMAIN f = S
  PROVE  /\ IsFiniteSet({f[x] : x \in S}) /\ Cardinality(S) \in Nat
         /\ Cardinality({f[x] : x \in S}) \in Nat
         /\ Cardinality({f[x] : x \in S}) <= Cardinality(S)
<1> DEFINE T == {f[x] : x \in S}
           g == [x \in S |-> f[x]]
<1>1. g \in Surjection(S, T)
  BY DEF Surjection
<1>2. IsFiniteSet(T) /\ Cardinality(T) <= Cardinality(S)
  BY <1>1, FS_Surjection
<1> QED
  BY <1>2, FS_CardinalityType

LEMMA UnionBound ==
  ASSUME NEW S, IsFiniteSet(S), NEW T, IsFiniteSet(T), NEW U \in SUBSET (S \cup T)
  PROVE  /\ IsFiniteSet(U) /\ Cardinality(U) \in Nat
         /\ Cardinality(U) <= Cardinality(S) + Cardinality(T)
<1>1. /\ Cardinality(S) \in Nat /\ Cardinality(T) \in Nat
      /\ IsFiniteSet(S \cap T) /\ Cardinality(S \cap T) \in Nat
  BY FS_CardinalityType, FS_Intersection
<1>2. /\ IsFiniteSet(S \cup T)
      /\ Cardinality(S \cup T) = Cardinality(S) + Cardinality(T) - Cardinality(S \cap T)
  BY FS_Union
<1>3. IsFiniteSet(U) /\ Cardinality(U) <= Cardinality(S \cup T)
  BY <1>2, FS_Subset
<1> QED
  BY <1>1, <1>2, <1>3, FS_CardinalityType

LEMMA NodesIs ==
  ASSUME NEW d, Contained(d)
  PROVE  Nodes(d) \in Nat
BY TreeIs, FS_CardinalityType DEF Nodes, Contained

LEMMA PutIs ==
  ASSUME NEW d, NEW v, NEW place \in Seq(Steps),
         DOMAIN d \subseteq Seq(Steps), DOMAIN v \subseteq Seq(Steps)
  PROVE  /\ \A p \in DOMAIN d : ~IsPrefix(place, p) =>
               p \in DOMAIN Put(d, place, v) /\ Put(d, place, v)[p] = d[p]
         /\ \A q \in DOMAIN v :
               place \o q \in DOMAIN Put(d, place, v) /\ Put(d, place, v)[place \o q] = v[q]
         /\ \A p \in DOMAIN Put(d, place, v) : \/ p \in DOMAIN d /\ ~IsPrefix(place, p)
                                               \/ \E q \in DOMAIN v : p = place \o q
<1> DEFINE r == Put(d, place, v)
           f(p) == IF IsPrefix(place, p) THEN v[SubSeq(p, Len(place) + 1, Len(p))] ELSE d[p]
<1>1. r = [p \in (DOMAIN d \ Under(d, place)) \cup {place \o q : q \in DOMAIN v} |-> f(p)]
  BY DEF Put
<1>2. DOMAIN r = (DOMAIN d \ Under(d, place)) \cup {place \o q : q \in DOMAIN v}
  BY <1>1
<1>3. \A p \in DOMAIN r : r[p] = f(p)
  BY <1>1
<1> HIDE DEF r
<1>4. ASSUME NEW p \in DOMAIN d, ~IsPrefix(place, p)
      PROVE  p \in DOMAIN r /\ r[p] = d[p]
  BY <1>2, <1>3, <1>4 DEF Under
<1>5. ASSUME NEW q \in DOMAIN v
      PROVE  place \o q \in DOMAIN r /\ r[place \o q] = v[q]
  <2>1. IsPrefix(place, place \o q) /\ SubSeq(place \o q, Len(place) + 1, Len(place \o q)) = q
    BY Joined
  <2> QED
    BY <2>1, <1>2, <1>3
<1> QED
  BY <1>2, <1>4, <1>5 DEF r, Under

\* A tree but for an item that may be missing.
TreeBut(d, hole) ==
  /\ IsFiniteSet(DOMAIN d) /\ DOMAIN d \subseteq Seq(Steps)
  /\ <<>> \in DOMAIN d
  /\ \A p \in DOMAIN d \ {<<>>} :
        /\ Front(p) \in DOMAIN d
        /\ Holds(d[Front(p)], Last(p))
        /\ Last(p)[1] = "item" =>
              \A i \in 0 .. Last(p)[2] : Append(Front(p), Item(i)) \in DOMAIN d \cup {hole}

\* A place where there is a value, or may be one.
Open(d, place) ==
  place # <<>> =>
     /\ Front(place) \in DOMAIN d
     /\ Holds(d[Front(place)], Last(place))
     /\ Last(place)[1] = "item" =>
           \A i \in 0 .. Last(place)[2] : Append(Front(place), Item(i)) \in DOMAIN d \cup {place}

LEMMA TreeOpen ==
  ASSUME NEW d, Tree(d), NEW hole
  PROVE  TreeBut(d, hole) /\ \A p \in DOMAIN d : Open(d, p)
BY DEF Tree, TreeBut, Open

\* A value put there leaves a tree, and adds no more than its own places.
LEMMA PutKeeps ==
  ASSUME NEW d, NEW v, NEW place \in Seq(Steps),
         TreeBut(d, place), \A p \in DOMAIN d : d[p] \in Contents, Open(d, place), Contained(v)
  PROVE  /\ Contained(Put(d, place, v))
         /\ Nodes(Put(d, place, v)) <= Nodes(d) + Nodes(v)
<1> DEFINE r == Put(d, place, v)
<1>1. /\ IsFiniteSet(DOMAIN d) /\ DOMAIN d \subseteq Seq(Steps) /\ <<>> \in DOMAIN d
      /\ IsFiniteSet(DOMAIN v) /\ DOMAIN v \subseteq Seq(Steps) /\ <<>> \in DOMAIN v
      /\ Tree(v) /\ \A p \in DOMAIN v : v[p] \in Contents
  BY TreeIs DEF TreeBut, Contained
<1>2. /\ \A p \in DOMAIN d : ~IsPrefix(place, p) => p \in DOMAIN r /\ r[p] = d[p]
      /\ \A q \in DOMAIN v : place \o q \in DOMAIN r /\ r[place \o q] = v[q]
      /\ \A p \in DOMAIN r : \/ p \in DOMAIN d /\ ~IsPrefix(place, p)
                             \/ \E q \in DOMAIN v : p = place \o q
  <2>1. DOMAIN d \subseteq Seq(Steps) /\ DOMAIN v \subseteq Seq(Steps)
    BY <1>1
  <2> HIDE DEF r
  <2>2. r = Put(d, place, v)
    BY DEF r
  <2> QED
    BY <2>1, <2>2, PutIs
<1> HIDE DEF r
<1>3. place \o <<>> = place
  BY ConcatEmptySeq
<1>4. place \in DOMAIN r
  BY <1>1, <1>2, <1>3
<1>5. /\ IsFiniteSet(DOMAIN r)
      /\ Cardinality(DOMAIN r) <= Cardinality(DOMAIN d) + Cardinality(DOMAIN v)
  <2> DEFINE f == [q \in DOMAIN v |-> place \o q]
             image == {f[q] : q \in DOMAIN v}
  <2>1. /\ IsFiniteSet(image) /\ Cardinality(image) \in Nat /\ Cardinality(DOMAIN v) \in Nat
        /\ Cardinality(image) <= Cardinality(DOMAIN v)
    <3>1. DOMAIN f = DOMAIN v
      OBVIOUS
    <3> HIDE DEF f
    <3> QED
      BY <1>1, <3>1, ImageBound
  <2>2. DOMAIN r \in SUBSET (DOMAIN d \cup image)
    BY <1>2
  <2> HIDE DEF image
  <2>3. /\ IsFiniteSet(DOMAIN r) /\ Cardinality(DOMAIN r) \in Nat
        /\ Cardinality(DOMAIN r) <= Cardinality(DOMAIN d) + Cardinality(image)
    BY <1>1, <2>1, <2>2, UnionBound
  <2>4. Cardinality(DOMAIN d) \in Nat
    BY <1>1, FS_CardinalityType
  <2> QED
    BY <2>1, <2>3, <2>4
<1>6. DOMAIN r \subseteq Seq(Steps)
  <2>1. \A q \in DOMAIN v : place \o q \in Seq(Steps)
    BY <1>1
  <2> QED
    BY <1>1, <1>2, <2>1
<1>7. <<>> \in DOMAIN r
  <2>1. CASE place = <<>>
    BY <1>4, <2>1
  <2>2. CASE place # <<>>
    <3>1. ~IsPrefix(place, <<>>)
      <4>1. Len(place) \in Nat \ {0} /\ Len(<<>>) = 0
        BY <2>2, EmptySeq
      <4> QED
        BY <4>1 DEF IsPrefix
    <3> QED
      BY <1>1, <1>2, <3>1
  <2> QED
    BY <2>1, <2>2
\* A place that is there or is the hole is there afterwards, if it was not below.
<1>8. ASSUME NEW p \in DOMAIN d \cup {place}, p = place \/ ~IsPrefix(place, p)
      PROVE  p \in DOMAIN r
  BY <1>2, <1>4, <1>8
<1>9. ASSUME NEW p \in DOMAIN r, p # <<>>
      PROVE  /\ Front(p) \in DOMAIN r
             /\ Holds(r[Front(p)], Last(p))
             /\ Last(p)[1] = "item" =>
                   \A i \in 0 .. Last(p)[2] : Append(Front(p), Item(i)) \in DOMAIN r
  <2>0. p \in Seq(Steps) /\ Front(p) \in Seq(Steps) /\ Last(p) \in Steps
    BY <1>6, <1>9, FrontIs
  <2>1. ASSUME NEW q \in DOMAIN v, p = place \o q, q # <<>>
        PROVE  /\ Front(p) \in DOMAIN r
               /\ Holds(r[Front(p)], Last(p))
               /\ Last(p)[1] = "item" =>
                     \A i \in 0 .. Last(p)[2] : Append(Front(p), Item(i)) \in DOMAIN r
    <3>0. q \in Seq(Steps) /\ Front(q) \in Seq(Steps)
      BY <1>1, <2>1, FrontIs
    <3>1. Front(p) = place \o Front(q) /\ Last(p) = Last(q)
      BY <2>1, <3>0, Joined
    <3>2. Front(q) \in DOMAIN v /\ Holds(v[Front(q)], Last(q))
      BY <1>1, <2>1, TreeIs
    <3>3. ASSUME Last(p)[1] = "item", NEW i \in 0 .. Last(p)[2]
          PROVE  Append(Front(p), Item(i)) \in DOMAIN r
      <4>1. Append(Front(q), Item(i)) \in DOMAIN v
        BY <1>1, <2>1, <3>1, <3>3 DEF Tree
      <4>2. i \in Nat /\ Item(i) \in Steps
        BY <2>0, <3>3, StepIs
      <4>3. place \o Append(Front(q), Item(i)) = Append(Front(p), Item(i))
        BY <3>0, <3>1, <4>2, AppendJoined
      <4> QED
        BY <1>2, <4>1, <4>3
    <3> QED
      BY <1>2, <3>1, <3>2, <3>3
  <2>2. CASE p = place
    <3>1. /\ Front(p) \in DOMAIN d /\ Holds(d[Front(p)], Last(p))
          /\ Last(p)[1] = "item" =>
                \A i \in 0 .. Last(p)[2] : Append(Front(p), Item(i)) \in DOMAIN d \cup {place}
      BY <1>9, <2>2 DEF Open
    <3>2. ~IsPrefix(place, Front(p))
      BY <1>9, <2>0, <2>2, PrefixFront
    <3>3. ASSUME Last(p)[1] = "item", NEW i \in 0 .. Last(p)[2]
          PROVE  Append(Front(p), Item(i)) \in DOMAIN r
      <4>1. Item(i) \in Steps
        BY <2>0, <3>3, StepIs
      <4>2. /\ Append(Front(p), Item(i)) \in Seq(Steps) /\ Append(Front(p), Item(i)) # <<>>
            /\ Front(Append(Front(p), Item(i))) = Front(p)
        BY <2>0, <4>1, FrontAppend
      <4>3. Append(Front(p), Item(i)) = place \/ ~IsPrefix(place, Append(Front(p), Item(i)))
        BY <3>2, <4>2, PrefixFront
      <4> QED
        BY <1>8, <3>1, <3>3, <4>3
    <3> QED
      BY <1>2, <3>1, <3>2, <3>3
  <2>3. CASE p \in DOMAIN d /\ ~IsPrefix(place, p)
    <3>1. /\ Front(p) \in DOMAIN d /\ Holds(d[Front(p)], Last(p))
          /\ Last(p)[1] = "item" =>
                \A i \in 0 .. Last(p)[2] : Append(Front(p), Item(i)) \in DOMAIN d \cup {place}
      BY <1>9, <2>3 DEF TreeBut
    <3>2. ~IsPrefix(place, Front(p))
      BY <1>9, <2>0, <2>3, PrefixFront
    <3>3. ASSUME Last(p)[1] = "item", NEW i \in 0 .. Last(p)[2]
          PROVE  Append(Front(p), Item(i)) \in DOMAIN r
      <4>1. Item(i) \in Steps
        BY <2>0, <3>3, StepIs
      <4>2. /\ Append(Front(p), Item(i)) \in Seq(Steps) /\ Append(Front(p), Item(i)) # <<>>
            /\ Front(Append(Front(p), Item(i))) = Front(p)
        BY <2>0, <4>1, FrontAppend
      <4>3. Append(Front(p), Item(i)) = place \/ ~IsPrefix(place, Append(Front(p), Item(i)))
        BY <3>2, <4>2, PrefixFront
      <4> QED
        BY <1>8, <3>1, <3>3, <4>3
    <3> QED
      BY <1>2, <3>1, <3>2, <3>3
  <2> QED
    BY <1>2, <1>3, <2>1, <2>2, <2>3
<1>10. Tree(r)
  BY <1>5, <1>6, <1>7, <1>9 DEF Tree
<1>11. \A p \in DOMAIN r : r[p] \in Contents
  BY <1>1, <1>2
<1> QED
  BY <1>5, <1>10, <1>11 DEF Contained, Nodes, r

LEMMA SingleContained ==
  ASSUME NEW value \in {Null, Object, Array}
  PROVE  Contained(Single(value)) /\ Nodes(Single(value)) = 1
<1>1. DOMAIN Single(value) = {<<>>} /\ Single(value)[<<>>] = value
  BY DEF Single
<1>2. IsFiniteSet({<<>>}) /\ Cardinality({<<>>}) = 1
  BY FS_Singleton
<1>3. <<>> \in Seq(Steps)
  OBVIOUS
<1> QED
  BY <1>1, <1>2, <1>3 DEF Contained, Tree, Contents, Nodes

LEMMA AsObjectKeeps ==
  ASSUME NEW d, Contained(d), NEW place \in Seq(Steps), Open(d, place)
  PROVE  /\ Contained(AsObject(d, place))
         /\ place \in DOMAIN AsObject(d, place) /\ AsObject(d, place)[place] = Object
         /\ \A p \in DOMAIN d : ~IsPrefix(place, p) =>
               p \in DOMAIN AsObject(d, place) /\ AsObject(d, place)[p] = d[p]
<1>1. CASE place \in DOMAIN d /\ d[place] = Object
  BY <1>1 DEF AsObject
<1>2. CASE ~(place \in DOMAIN d /\ d[place] = Object)
  <2>1. AsObject(d, place) = Put(d, place, Single(Object))
    BY <1>2 DEF AsObject
  <2>2. TreeBut(d, place) /\ \A p \in DOMAIN d : d[p] \in Contents
    BY TreeOpen DEF Contained
  <2>3. Contained(Single(Object)) /\ DOMAIN Single(Object) = {<<>>} /\ Single(Object)[<<>>] = Object
    BY SingleContained DEF Single
  <2>4. Contained(Put(d, place, Single(Object)))
    BY <2>2, <2>3, PutKeeps
  <2>5. DOMAIN d \subseteq Seq(Steps) /\ DOMAIN Single(Object) \subseteq Seq(Steps)
    BY <2>3, TreeIs DEF Contained
  <2>6. place \o <<>> = place
    BY ConcatEmptySeq
  <2>7. /\ place \in DOMAIN Put(d, place, Single(Object))
        /\ Put(d, place, Single(Object))[place] = Object
        /\ \A p \in DOMAIN d : ~IsPrefix(place, p) =>
              /\ p \in DOMAIN Put(d, place, Single(Object))
              /\ Put(d, place, Single(Object))[p] = d[p]
    <3> DEFINE v == Single(Object)
    <3>1. /\ \A p \in DOMAIN d : ~IsPrefix(place, p) =>
                p \in DOMAIN Put(d, place, v) /\ Put(d, place, v)[p] = d[p]
          /\ \A q \in DOMAIN v :
                place \o q \in DOMAIN Put(d, place, v) /\ Put(d, place, v)[place \o q] = v[q]
      BY <2>5, PutIs
    <3> HIDE DEF v
    <3>2. <<>> \in DOMAIN v /\ v[<<>>] = Object
      BY <2>3 DEF v
    <3> QED
      BY <3>1, <3>2, <2>6 DEF v
  <2> QED
    BY <2>1, <2>4, <2>7
<1> QED
  BY <1>1, <1>2

\* The value at a place is a document of its own.
LEMMA PartIs ==
  ASSUME NEW d, DOMAIN d \subseteq Seq(Steps), NEW place \in Seq(Steps)
  PROVE  /\ \A p : p \in DOMAIN Part(d, place) <=> p \in Seq(Steps) /\ place \o p \in DOMAIN d
         /\ \A p \in DOMAIN Part(d, place) : Part(d, place)[p] = d[place \o p]
<1> DEFINE below == {SubSeq(q, Len(place) + 1, Len(q)) : q \in Under(d, place)}
<1>1. Part(d, place) = [p \in below |-> d[place \o p]]
  BY DEF Part
<1>2. ASSUME NEW p \in below
      PROVE  p \in Seq(Steps) /\ place \o p \in DOMAIN d
  <2>1. PICK q \in Under(d, place) : p = SubSeq(q, Len(place) + 1, Len(q))
    OBVIOUS
  <2> QED
    BY <2>1, Split DEF Under
<1>3. ASSUME NEW p \in Seq(Steps), place \o p \in DOMAIN d
      PROVE  p \in below
  <2>1. /\ IsPrefix(place, place \o p)
        /\ SubSeq(place \o p, Len(place) + 1, Len(place \o p)) = p
    BY Joined
  <2>2. place \o p \in Under(d, place)
    BY <1>3, <2>1 DEF Under
  <2> QED
    BY <2>1, <2>2
<1> QED
  BY <1>1, <1>2, <1>3

LEMMA PartKeeps ==
  ASSUME NEW d, Contained(d), NEW place \in DOMAIN d
  PROVE  /\ Contained(Part(d, place))
         /\ IsFiniteSet(Under(d, place))
         /\ Nodes(Part(d, place)) <= Cardinality(Under(d, place))
<1> DEFINE r == Part(d, place)
<1>1. /\ IsFiniteSet(DOMAIN d) /\ DOMAIN d \subseteq Seq(Steps) /\ place \in Seq(Steps)
      /\ Tree(d) /\ \A p \in DOMAIN d : d[p] \in Contents
  BY TreeIs DEF Contained
<1>2. /\ \A p : p \in DOMAIN r <=> p \in Seq(Steps) /\ place \o p \in DOMAIN d
      /\ \A p \in DOMAIN r : r[p] = d[place \o p]
  BY <1>1, PartIs
<1>3. IsFiniteSet(Under(d, place))
  <2>1. Under(d, place) \in SUBSET DOMAIN d
    BY DEF Under
  <2> QED
    BY <1>1, <2>1, FS_Subset
<1>4. IsFiniteSet(DOMAIN r) /\ Cardinality(DOMAIN r) <= Cardinality(Under(d, place))
  <2> DEFINE f == [q \in Under(d, place) |-> SubSeq(q, Len(place) + 1, Len(q))]
  <2>1. DOMAIN r = {f[q] : q \in Under(d, place)}
    BY DEF Part
  <2>2. DOMAIN f = Under(d, place)
    OBVIOUS
  <2> HIDE DEF f, r
  <2> QED
    BY <1>3, <2>1, <2>2, ImageBound
<1> HIDE DEF r
<1>5. <<>> \in DOMAIN r
  <2>1. place \o <<>> = place /\ <<>> \in Seq(Steps)
    BY <1>1, ConcatEmptySeq
  <2> QED
    BY <1>2, <2>1
<1>6. ASSUME NEW p \in DOMAIN r, p # <<>>
      PROVE  /\ Front(p) \in DOMAIN r
             /\ Holds(r[Front(p)], Last(p))
             /\ Last(p)[1] = "item" =>
                   \A i \in 0 .. Last(p)[2] : Append(Front(p), Item(i)) \in DOMAIN r
  <2>1. /\ p \in Seq(Steps) /\ place \o p \in DOMAIN d /\ Front(p) \in Seq(Steps) /\ Last(p) \in Steps
    BY <1>2, <1>6, FrontIs
  <2>2. /\ place \o p # <<>> /\ Front(place \o p) = place \o Front(p) /\ Last(place \o p) = Last(p)
    BY <1>1, <1>6, <2>1, Joined
  <2>3. place \o Front(p) \in DOMAIN d /\ Holds(d[place \o Front(p)], Last(p))
    BY <1>1, <2>1, <2>2, TreeIs
  <2>4. ASSUME Last(p)[1] = "item", NEW i \in 0 .. Last(p)[2]
        PROVE  Append(Front(p), Item(i)) \in DOMAIN r
    <3>1. Append(place \o Front(p), Item(i)) \in DOMAIN d
      BY <1>1, <2>1, <2>2, <2>4 DEF Tree
    <3>2. Item(i) \in Steps
      BY <2>1, <2>4, StepIs
    <3>3. Append(Front(p), Item(i)) \in Seq(Steps)
      BY <2>1, <3>2
    <3>4. place \o Append(Front(p), Item(i)) = Append(place \o Front(p), Item(i))
      BY <1>1, <2>1, <3>2, AppendJoined
    <3> QED
      BY <1>2, <3>1, <3>3, <3>4
  <2> QED
    BY <1>2, <2>1, <2>3, <2>4
<1>7. Tree(r)
  <2>1. DOMAIN r \subseteq Seq(Steps)
    BY <1>2
  <2> QED
    BY <1>4, <1>5, <1>6, <2>1 DEF Tree
<1> QED
  BY <1>1, <1>2, <1>3, <1>4, <1>7 DEF r, Contained, Nodes

\* What stands under a key can go.
LEMMA WithoutKeeps ==
  ASSUME NEW d, Contained(d), NEW place \in Seq(Steps), place # <<>>, Last(place)[1] # "item"
  PROVE  /\ Contained(Without(d, place))
         /\ DOMAIN Without(d, place) = DOMAIN d \ Under(d, place)
         /\ \A p \in DOMAIN Without(d, place) : Without(d, place)[p] = d[p]
<1> DEFINE r == Without(d, place)
<1>1. /\ IsFiniteSet(DOMAIN d) /\ DOMAIN d \subseteq Seq(Steps) /\ <<>> \in DOMAIN d
      /\ Tree(d) /\ \A p \in DOMAIN d : d[p] \in Contents
  BY TreeIs DEF Contained
<1>2. DOMAIN r = DOMAIN d \ Under(d, place) /\ \A p \in DOMAIN r : r[p] = d[p]
  BY DEF Without
<1> HIDE DEF r
<1>3. IsFiniteSet(DOMAIN r) /\ DOMAIN r \subseteq Seq(Steps)
  <2>1. DOMAIN r \in SUBSET DOMAIN d
    BY <1>2
  <2> QED
    BY <1>1, <2>1, FS_Subset
<1>4. <<>> \in DOMAIN r
  <2>1. Len(place) \in Nat \ {0} /\ Len(<<>>) = 0
    BY EmptySeq
  <2>2. ~IsPrefix(place, <<>>)
    BY <2>1 DEF IsPrefix
  <2> QED
    BY <1>1, <1>2, <2>2 DEF Under
<1>5. ASSUME NEW p \in DOMAIN r, p # <<>>
      PROVE  /\ Front(p) \in DOMAIN r
             /\ Holds(r[Front(p)], Last(p))
             /\ Last(p)[1] = "item" =>
                   \A i \in 0 .. Last(p)[2] : Append(Front(p), Item(i)) \in DOMAIN r
  <2>1. /\ p \in Seq(Steps) /\ p \in DOMAIN d /\ ~IsPrefix(place, p)
        /\ Front(p) \in Seq(Steps) /\ Last(p) \in Steps
    BY <1>1, <1>2, <1>5, FrontIs DEF Under
  <2>2. ~IsPrefix(place, Front(p))
    BY <1>5, <2>1, PrefixFront
  <2>3. Front(p) \in DOMAIN d /\ Holds(d[Front(p)], Last(p))
    BY <1>1, <1>5, <2>1, TreeIs
  <2>4. ASSUME Last(p)[1] = "item", NEW i \in 0 .. Last(p)[2]
        PROVE  Append(Front(p), Item(i)) \in DOMAIN r
    <3>1. Append(Front(p), Item(i)) \in DOMAIN d
      BY <1>1, <1>5, <2>1, <2>4 DEF Tree
    <3>2. Item(i) \in Steps /\ Item(i)[1] = "item"
      BY <2>1, <2>4, StepIs
    <3>3. /\ Append(Front(p), Item(i)) \in Seq(Steps) /\ Append(Front(p), Item(i)) # <<>>
          /\ Front(Append(Front(p), Item(i))) = Front(p) /\ Last(Append(Front(p), Item(i))) = Item(i)
      BY <2>1, <3>2, FrontAppend
    <3>4. ~IsPrefix(place, Append(Front(p), Item(i)))
      BY <2>2, <3>2, <3>3, PrefixFront
    <3> QED
      BY <1>2, <3>1, <3>4 DEF Under
  <2> QED
    BY <1>2, <2>1, <2>2, <2>3, <2>4 DEF Under
<1>6. Tree(r)
  BY <1>3, <1>4, <1>5 DEF Tree
<1> QED
  BY <1>1, <1>2, <1>6 DEF r, Contained

-----------------------------------------------------------------------------
(* Arrays: how many items there are, and numbering them anew.              *)

\* Below the length of an array there is an item at every index.
LEMMA ItemIs ==
  ASSUME NEW d, Tree(d), NEW place \in DOMAIN d, d[place] = Array,
         NEW i \in Nat, i < Length(d, place)
  PROVE  Append(place, Item(i)) \in DOMAIN d
<1>1. /\ IsFiniteSet(DOMAIN d) /\ DOMAIN d \subseteq Seq(Steps) /\ place \in Seq(Steps)
  BY TreeIs
<1> SUFFICES ASSUME Append(place, Item(i)) \notin DOMAIN d
             PROVE  FALSE
  OBVIOUS
<1> DEFINE f == [n \in 0 .. i - 1 |-> Append(place, Item(n))]
           image == {f[n] : n \in 0 .. i - 1}
<1>2. ASSUME NEW p \in Children(d, place)
      PROVE  p \in image
  <2>1. p \in DOMAIN d /\ p # <<>> /\ Front(p) = place /\ p \in Seq(Steps)
    BY <1>1, <1>2 DEF Children
  <2>2. p = Append(place, Last(p)) /\ Last(p) \in Steps
    BY <2>1, FrontIs
  <2>3. Last(p)[1] = "item"
    BY <2>1, TreeIs DEF Holds, Array, Object
  <2>4. Last(p)[2] \in Nat /\ Last(p) = Item(Last(p)[2])
    BY <2>2, <2>3, StepIs
  <2>5. \A n \in 0 .. Last(p)[2] : Append(place, Item(n)) \in DOMAIN d
    BY <2>1, <2>3 DEF Tree
  <2>6. ~(i <= Last(p)[2])
    BY <2>4, <2>5
  <2>7. Last(p)[2] \in 0 .. i - 1
    BY <2>4, <2>6
  <2> QED
    BY <2>2, <2>4, <2>7
<1>3. IsFiniteSet(0 .. i - 1) /\ Cardinality(0 .. i - 1) = i
  <2>1. 0 \in Int /\ i - 1 \in Int
    OBVIOUS
  <2>2. IsFiniteSet(0 .. i - 1) /\ Cardinality(0 .. i - 1) = IF 0 > i - 1 THEN 0 ELSE (i - 1) - 0 + 1
    BY <2>1, FS_Interval
  <2> QED
    BY <2>2
<1>4. IsFiniteSet(image) /\ Cardinality(image) \in Nat /\ Cardinality(image) <= i
  <2>1. DOMAIN f = 0 .. i - 1
    OBVIOUS
  <2> HIDE DEF f
  <2> QED
    BY <1>3, <2>1, ImageBound
<1>5. Children(d, place) \in SUBSET image
  BY <1>2
<1> HIDE DEF image
<1>6. Cardinality(Children(d, place)) <= Cardinality(image) /\ IsFiniteSet(Children(d, place))
  BY <1>4, <1>5, FS_Subset
<1>7. Cardinality(Children(d, place)) \in Nat
  BY <1>6, FS_CardinalityType
<1> QED
  BY <1>4, <1>6, <1>7 DEF Length

LEMMA LengthIs ==
  ASSUME NEW d, Tree(d), NEW place
  PROVE  Length(d, place) \in Nat
<1>1. Children(d, place) \in SUBSET DOMAIN d /\ IsFiniteSet(DOMAIN d)
  BY TreeIs DEF Children
<1> QED
  BY <1>1, FS_Subset, FS_CardinalityType DEF Length

\* What stands under the items of an array from one on.
LEMMA LaterIs ==
  ASSUME NEW d, Tree(d), NEW place \in DOMAIN d, d[place] = Array, NEW n \in Nat,
         NEW p \in Later(d, place, n)
  PROVE  /\ p \in DOMAIN d /\ p \in Seq(Steps) /\ IsPrefix(place, p) /\ Len(p) >= Len(place) + 1
         /\ p[Len(place) + 1][2] \in Nat /\ p[Len(place) + 1][2] >= n
         /\ p[Len(place) + 1] = Item(p[Len(place) + 1][2])
<1>1. /\ p \in DOMAIN d /\ IsPrefix(place, p) /\ place # p /\ p[Len(place) + 1][2] >= n
  BY DEF Later, IsStrictPrefix
<1>2. place \in Seq(Steps) /\ p \in Seq(Steps)
  BY <1>1, TreeIs
<1>3. Len(place) < Len(p) /\ Holds(d[place], p[Len(place) + 1]) /\ p[Len(place) + 1] \in Steps
  BY <1>1, <1>2, TreeBetween
<1>4. p[Len(place) + 1][1] = "item"
  BY <1>3 DEF Holds, Array, Object
<1> QED
  BY <1>1, <1>2, <1>3, <1>4, StepIs

LEMMA MovedIs ==
  ASSUME NEW place \in Seq(Steps), NEW p \in Seq(Steps), IsPrefix(place, p),
         Len(p) >= Len(place) + 1, NEW i \in Nat, p[Len(place) + 1] = Item(i),
         NEW by \in Int, i + by \in Nat
  PROVE  /\ Moved(p, place, by) \in Seq(Steps) /\ Moved(p, place, by) # <<>>
         /\ Len(Moved(p, place, by)) = Len(p)
         /\ IsPrefix(place, Moved(p, place, by))
         /\ Moved(p, place, by)[Len(place) + 1] = Item(i + by)
         /\ \A n \in 1 .. Len(p) : n # Len(place) + 1 => Moved(p, place, by)[n] = p[n]
<1> DEFINE m == Len(place) + 1
           r == Moved(p, place, by)
<1>1. m \in 1 .. Len(p) /\ Len(place) \in Nat /\ Len(p) \in Nat
  OBVIOUS
<1>2. Item(i)[2] = i /\ Item(i + by) \in Steps
  BY StepIs
<1>3. r = [p EXCEPT ![m] = Item(i + by)]
  BY <1>2 DEF Moved
<1>4. /\ r \in Seq(Steps) /\ Len(r) = Len(p)
      /\ \A n \in 1 .. Len(p) : r[n] = IF n = m THEN Item(i + by) ELSE p[n]
  BY <1>1, <1>2, <1>3, ExceptSeq
<1> HIDE DEF r
<1>5. IsPrefix(place, r)
  <2>1. Len(place) <= Len(p) /\ \A n \in 1 .. Len(place) : place[n] = p[n]
    BY PrefixIs
  <2>2. \A n \in 1 .. Len(place) : n \in 1 .. Len(p) /\ n # m
    BY <1>1
  <2>3. Len(place) <= Len(r) /\ \A n \in 1 .. Len(place) : place[n] = r[n]
    BY <1>4, <2>1, <2>2
  <2> QED
    BY <1>4, <2>3, PrefixIs
<1>6. r # <<>>
  <2>1. Len(r) # 0
    BY <1>1, <1>4
  <2> QED
    BY <2>1
<1> QED
  BY <1>1, <1>4, <1>5, <1>6 DEF r

\* There and back again.
LEMMA MovedBack ==
  ASSUME NEW place \in Seq(Steps), NEW p \in Seq(Steps), IsPrefix(place, p),
         Len(p) >= Len(place) + 1, NEW i \in Nat, p[Len(place) + 1] = Item(i),
         NEW by \in Int, i + by \in Nat, NEW back \in Int, by + back = 0
  PROVE  Moved(Moved(p, place, by), place, back) = p
<1> DEFINE r == Moved(p, place, by)
<1>1. /\ r \in Seq(Steps) /\ Len(r) = Len(p) /\ IsPrefix(place, r)
      /\ r[Len(place) + 1] = Item(i + by)
      /\ \A n \in 1 .. Len(p) : n # Len(place) + 1 => r[n] = p[n]
  BY MovedIs
<1> HIDE DEF r
<1> DEFINE s == Moved(r, place, back)
<1>2. (i + by) + back = i /\ i + by \in Nat
  OBVIOUS
<1>3. /\ s \in Seq(Steps) /\ Len(s) = Len(r)
      /\ s[Len(place) + 1] = Item(i)
      /\ \A n \in 1 .. Len(r) : n # Len(place) + 1 => s[n] = r[n]
  <2>1. Len(r) >= Len(place) + 1 /\ (i + by) + back \in Nat
    BY <1>1, <1>2
  <2>2. /\ s \in Seq(Steps) /\ Len(s) = Len(r)
        /\ s[Len(place) + 1] = Item((i + by) + back)
        /\ \A n \in 1 .. Len(r) : n # Len(place) + 1 => s[n] = r[n]
    BY <1>1, <1>2, <2>1, MovedIs
  <2> QED
    BY <1>2, <2>2
<1> HIDE DEF s
<1>4. Len(s) = Len(p) /\ \A n \in 1 .. Len(s) : s[n] = p[n]
  BY <1>1, <1>3
<1>5. s = p
  BY <1>3, <1>4, SeqEqual
<1> QED
  BY <1>5 DEF s, r

LEMMA MovedItem ==
  ASSUME NEW place \in Seq(Steps), NEW p \in Seq(Steps), IsPrefix(place, p),
         Len(p) = Len(place) + 1, NEW i \in Nat, p[Len(place) + 1] = Item(i),
         NEW by \in Int, i + by \in Nat
  PROVE  Moved(p, place, by) = Append(place, Item(i + by))
<1> DEFINE r == Moved(p, place, by)
<1>1. Len(p) >= Len(place) + 1
  OBVIOUS
<1>2. /\ r \in Seq(Steps) /\ r # <<>> /\ Len(r) = Len(p) /\ IsPrefix(place, r)
      /\ r[Len(place) + 1] = Item(i + by)
  BY <1>1, MovedIs
<1> HIDE DEF r
<1>3. /\ Front(r) \in Seq(Steps) /\ Len(Front(r)) = Len(r) - 1
      /\ Last(r) = r[Len(r)] /\ r = Append(Front(r), Last(r))
  BY <1>2, FrontIs
<1>4. Front(r) = place
  <2>1. IsPrefix(place, Front(r))
    <3>1. place # r
      BY <1>2
    <3> QED
      BY <1>2, <3>1, PrefixFront
  <2>2. Len(Front(r)) = Len(place)
    BY <1>2, <1>3
  <2> QED
    BY <1>3, <2>1, <2>2, PrefixOrder
<1> QED
  BY <1>2, <1>3, <1>4 DEF r

\* What stands right in the item moves with it, and what stands below goes along.
LEMMA MovedFront ==
  ASSUME NEW place \in Seq(Steps), NEW p \in Seq(Steps), IsPrefix(place, p),
         Len(p) >= Len(place) + 1, NEW i \in Nat, p[Len(place) + 1] = Item(i),
         NEW by \in Int, i + by \in Nat
  PROVE  /\ Len(p) = Len(place) + 1 =>
               /\ Front(p) = place /\ Last(p) = Item(i) /\ p = Append(place, Item(i))
               /\ Moved(p, place, by) = Append(place, Item(i + by))
         /\ Len(p) > Len(place) + 1 =>
               /\ IsPrefix(place, Front(p)) /\ Front(p) # place
               /\ Front(p)[Len(place) + 1] = Item(i)
               /\ Front(Moved(p, place, by)) = Moved(Front(p), place, by)
               /\ Last(Moved(p, place, by)) = Last(p)
<1> DEFINE r == Moved(p, place, by)
           m == Len(place) + 1
<1>1. /\ r \in Seq(Steps) /\ r # <<>> /\ Len(r) = Len(p) /\ IsPrefix(place, r)
      /\ r[m] = Item(i + by)
      /\ \A n \in 1 .. Len(p) : n # m => r[n] = p[n]
  BY MovedIs
<1> HIDE DEF r
<1>2. p # <<>> /\ Len(p) \in Nat /\ Len(place) \in Nat
  OBVIOUS
<1>3. /\ Front(p) \in Seq(Steps) /\ Len(Front(p)) = Len(p) - 1
      /\ \A n \in 1 .. Len(p) - 1 : Front(p)[n] = p[n]
      /\ Last(p) = p[Len(p)] /\ p = Append(Front(p), Last(p))
      /\ Front(r) \in Seq(Steps) /\ Len(Front(r)) = Len(r) - 1
      /\ \A n \in 1 .. Len(r) - 1 : Front(r)[n] = r[n]
      /\ Last(r) = r[Len(r)] /\ r = Append(Front(r), Last(r))
  BY <1>1, <1>2, FrontIs
<1>4. \A n \in 1 .. Len(place) : place[n] = p[n] /\ place[n] = r[n]
  BY <1>1, PrefixIs
<1>5. ASSUME Len(p) = m
      PROVE  /\ Front(p) = place /\ Last(p) = Item(i) /\ p = Append(place, Item(i))
             /\ r = Append(place, Item(i + by))
  <2>1. Len(Front(p)) = Len(place) /\ \A n \in 1 .. Len(place) : place[n] = Front(p)[n]
    BY <1>2, <1>3, <1>4, <1>5
  <2>2. Front(p) = place
    BY <1>3, <2>1, SeqEqual
  <2>3. Len(Front(r)) = Len(place) /\ \A n \in 1 .. Len(place) : place[n] = Front(r)[n]
    BY <1>1, <1>2, <1>3, <1>4, <1>5
  <2>4. Front(r) = place
    BY <1>3, <2>3, SeqEqual
  <2>5. Last(p) = Item(i) /\ Last(r) = Item(i + by)
    BY <1>1, <1>3, <1>5
  <2> QED
    BY <1>3, <2>2, <2>4, <2>5
<1>6. ASSUME Len(p) > m
      PROVE  /\ IsPrefix(place, Front(p)) /\ Front(p) # place
             /\ Front(p)[m] = Item(i)
             /\ Front(r) = Moved(Front(p), place, by)
             /\ Last(r) = Last(p)
  <2>1. Len(place) <= Len(Front(p)) /\ \A n \in 1 .. Len(place) : place[n] = Front(p)[n]
    BY <1>2, <1>3, <1>4, <1>6
  <2>2. IsPrefix(place, Front(p)) /\ Front(p) # place
    <3>1. Len(Front(p)) # Len(place)
      BY <1>2, <1>3, <1>6
    <3> QED
      BY <1>3, <2>1, <3>1, PrefixIs
  <2>3. m \in 1 .. Len(p) - 1 /\ Front(p)[m] = Item(i) /\ Len(Front(p)) >= Len(place) + 1
    BY <1>2, <1>3, <1>6
  <2> DEFINE f == Front(p)
             t == Moved(f, place, by)
  <2>4. /\ t \in Seq(Steps) /\ Len(t) = Len(f) /\ t[m] = Item(i + by)
        /\ \A n \in 1 .. Len(f) : n # m => t[n] = f[n]
    <3>1. /\ f \in Seq(Steps) /\ IsPrefix(place, f) /\ Len(f) >= Len(place) + 1
          /\ f[Len(place) + 1] = Item(i)
      BY <1>3, <2>2, <2>3
    <3> HIDE DEF f
    <3> QED
      BY <3>1, MovedIs
  <2> HIDE DEF t
  <2>5. Len(t) = Len(Front(r)) /\ \A n \in 1 .. Len(t) : t[n] = Front(r)[n]
    <3>1. Len(t) = Len(p) - 1 /\ Len(Front(r)) = Len(p) - 1
      BY <1>1, <1>3, <2>4
    <3>2. ASSUME NEW n \in 1 .. Len(t)
          PROVE  t[n] = Front(r)[n]
      <4>1. n \in 1 .. Len(p) - 1 /\ n \in 1 .. Len(p) /\ n \in 1 .. Len(f)
        BY <1>2, <1>3, <3>1
      <4>2. Front(r)[n] = r[n] /\ f[n] = p[n]
        BY <1>1, <1>3, <4>1
      <4>3. t[n] = IF n = m THEN Item(i + by) ELSE f[n]
        BY <2>4, <4>1
      <4> QED
        BY <1>1, <4>1, <4>2, <4>3
    <3> QED
      BY <3>1, <3>2
  <2>6. t = Front(r)
    BY <1>3, <2>4, <2>5, SeqEqual
  <2>7. Last(r) = Last(p)
    <3>1. Len(p) \in 1 .. Len(p) /\ Len(p) # m
      BY <1>2, <1>6
    <3> QED
      BY <1>1, <1>3, <3>1
  <2> QED
    BY <2>2, <2>3, <2>6, <2>7 DEF t
<1> QED
  BY <1>5, <1>6 DEF r

LEMMA LaterHas ==
  ASSUME NEW d, NEW place \in Seq(Steps), NEW p \in DOMAIN d, p \in Seq(Steps), IsPrefix(place, p),
         Len(p) >= Len(place) + 1, NEW i \in Nat, p[Len(place) + 1] = Item(i), NEW n \in Nat
  PROVE  p \in Later(d, place, n) <=> i >= n
<1>1. place # p
  OBVIOUS
<1>2. p[Len(place) + 1][2] = i
  BY StepIs
<1> QED
  BY <1>1, <1>2 DEF Later, IsStrictPrefix

\* InsertItem and RemoveItem both drop the items from one on, and put those from
\* another on in new places.
Renumbered(d, place, cut, first, by, back) ==
  LET later == {Moved(p, place, by) : p \in Later(d, place, first)}
  IN [p \in (DOMAIN d \ Later(d, place, cut)) \cup later |->
         IF p \in later THEN d[Moved(p, place, back)] ELSE d[p]]

RenumberedAs(r, d, place, cut, first, by) ==
  /\ \A p \in DOMAIN d : p \notin Later(d, place, cut) => p \in DOMAIN r /\ r[p] = d[p]
  /\ \A q \in Later(d, place, first) :
        Moved(q, place, by) \in DOMAIN r /\ r[Moved(q, place, by)] = d[q]
  /\ \A p \in DOMAIN r : \/ p \in DOMAIN d /\ p \notin Later(d, place, cut)
                         \/ \E q \in Later(d, place, first) : p = Moved(q, place, by)

LEMMA RenumberedIs ==
  ASSUME NEW d, Tree(d), NEW place \in DOMAIN d, d[place] = Array,
         NEW cut \in Nat, NEW first \in Nat, cut <= first,
         NEW by \in Int, NEW back \in Int, by + back = 0, cut <= first + by,
         NEW r, r = Renumbered(d, place, cut, first, by, back)
  PROVE  RenumberedAs(r, d, place, cut, first, by)
<1> DEFINE later == {Moved(q, place, by) : q \in Later(d, place, first)}
           m == Len(place) + 1
<1>1. r = [p \in (DOMAIN d \ Later(d, place, cut)) \cup later |->
             IF p \in later THEN d[Moved(p, place, back)] ELSE d[p]]
  BY DEF Renumbered
<1>2. place \in Seq(Steps)
  BY TreeIs
<1>3. ASSUME NEW q \in Later(d, place, first)
      PROVE  /\ Moved(Moved(q, place, by), place, back) = q
             /\ Moved(q, place, by) \in DOMAIN d => Moved(q, place, by) \in Later(d, place, cut)
  <2>1. PICK i \in Nat : i = q[m][2]
    BY <1>3, LaterIs
  <2>2. /\ q \in Seq(Steps) /\ IsPrefix(place, q) /\ Len(q) >= m /\ i >= first /\ q[m] = Item(i)
    BY <1>3, <2>1, LaterIs
  <2>3. i + by \in Nat /\ i + by >= cut
    BY <2>2
  <2>4. Moved(Moved(q, place, by), place, back) = q
    <3>1. q[Len(place) + 1] = Item(i) /\ Len(q) >= Len(place) + 1
      BY <2>2
    <3> QED
      BY <1>2, <2>2, <2>3, <3>1, MovedBack
  <2> DEFINE s == Moved(q, place, by)
  <2>5. /\ s \in Seq(Steps) /\ Len(s) = Len(q) /\ IsPrefix(place, s) /\ s[m] = Item(i + by)
    BY <1>2, <2>2, <2>3, MovedIs
  <2> HIDE DEF s
  <2>6. s \in DOMAIN d => s \in Later(d, place, cut)
    BY <1>2, <2>2, <2>3, <2>5, LaterHas
  <2> QED
    BY <2>4, <2>6 DEF s
<1>4. ASSUME NEW p \in DOMAIN d, p \notin Later(d, place, cut)
      PROVE  p \notin later
  BY <1>3, <1>4
<1>5. \A p \in DOMAIN d : p \notin Later(d, place, cut) => p \in DOMAIN r /\ r[p] = d[p]
  BY <1>1, <1>4
<1>6. \A q \in Later(d, place, first) :
         Moved(q, place, by) \in DOMAIN r /\ r[Moved(q, place, by)] = d[q]
  BY <1>1, <1>3
<1>7. \A p \in DOMAIN r : \/ p \in DOMAIN d /\ p \notin Later(d, place, cut)
                          \/ \E q \in Later(d, place, first) : p = Moved(q, place, by)
  BY <1>1
<1> QED
  BY <1>5, <1>6, <1>7 DEF RenumberedAs

\* A tree in which an array may lack the items from one up to another.
TreeButItems(d, place, from, to) ==
  /\ IsFiniteSet(DOMAIN d)
  /\ DOMAIN d \subseteq Seq(Steps) /\ <<>> \in DOMAIN d
  /\ \A p \in DOMAIN d : d[p] \in Contents
  /\ \A p \in DOMAIN d : p # <<>> =>
        /\ Front(p) \in DOMAIN d
        /\ Holds(d[Front(p)], Last(p))
        /\ Last(p)[1] = "item" =>
              \A i \in 0 .. Last(p)[2] :
                 \/ Append(Front(p), Item(i)) \in DOMAIN d
                 \/ Front(p) = place /\ i \in from .. to - 1

LEMMA RenumberedKeeps ==
  ASSUME NEW d, Contained(d), NEW place \in DOMAIN d, d[place] = Array,
         NEW cut \in Nat, NEW first \in Nat, cut <= first,
         NEW by \in Int, NEW back \in Int, by + back = 0, cut <= first + by,
         NEW r, r = Renumbered(d, place, cut, first, by, back)
  PROVE  /\ TreeButItems(r, place, cut, first + by)
         /\ Cardinality(DOMAIN r) <=
               Cardinality(DOMAIN d \ Later(d, place, cut)) + Cardinality(Later(d, place, first))
<1> DEFINE m == Len(place) + 1
<1>1. /\ Tree(d) /\ IsFiniteSet(DOMAIN d) /\ DOMAIN d \subseteq Seq(Steps) /\ <<>> \in DOMAIN d
      /\ place \in Seq(Steps) /\ \A p \in DOMAIN d : d[p] \in Contents
  BY TreeIs DEF Contained
<1>2. /\ \A p \in DOMAIN d : p \notin Later(d, place, cut) => p \in DOMAIN r /\ r[p] = d[p]
      /\ \A q \in Later(d, place, first) :
            Moved(q, place, by) \in DOMAIN r /\ r[Moved(q, place, by)] = d[q]
      /\ \A p \in DOMAIN r : \/ p \in DOMAIN d /\ p \notin Later(d, place, cut)
                             \/ \E q \in Later(d, place, first) : p = Moved(q, place, by)
  <2>1. RenumberedAs(r, d, place, cut, first, by)
    BY <1>1, RenumberedIs
  <2> QED
    BY <2>1 DEF RenumberedAs
<1>3. DOMAIN r = (DOMAIN d \ Later(d, place, cut))
                    \cup {Moved(q, place, by) : q \in Later(d, place, first)}
  BY DEF Renumbered
<1>4. ASSUME NEW q \in Later(d, place, first)
      PROVE  \E i \in Nat : /\ q \in DOMAIN d /\ q \in Seq(Steps) /\ IsPrefix(place, q) /\ Len(q) >= m
                            /\ i >= first /\ q[m] = Item(i) /\ i + by \in Nat /\ i + by >= cut
  <2>1. PICK i \in Nat : i = q[m][2]
    BY <1>1, <1>4, LaterIs
  <2>2. /\ q \in DOMAIN d /\ q \in Seq(Steps) /\ IsPrefix(place, q) /\ Len(q) >= m
        /\ i >= first /\ q[m] = Item(i)
    BY <1>1, <1>4, <2>1, LaterIs
  <2>3. i + by \in Nat /\ i + by >= cut
    BY <2>2
  <2> QED
    BY <2>2, <2>3
<1>5. /\ IsFiniteSet(DOMAIN r)
      /\ Cardinality(DOMAIN r) <=
            Cardinality(DOMAIN d \ Later(d, place, cut)) + Cardinality(Later(d, place, first))
  <2> DEFINE kept == DOMAIN d \ Later(d, place, cut)
             later == Later(d, place, first)
             f == [q \in later |-> Moved(q, place, by)]
             image == {f[q] : q \in later}
  <2>1. later \in SUBSET DOMAIN d /\ kept \in SUBSET DOMAIN d
    BY DEF Later
  <2>2. IsFiniteSet(later) /\ IsFiniteSet(kept)
    BY <1>1, <2>1, FS_Subset
  <2>3. DOMAIN f = later
    OBVIOUS
  <2>4. DOMAIN r \in SUBSET (kept \cup image)
    BY <1>3
  <2> HIDE DEF f, later, kept
  <2>5. /\ IsFiniteSet(image) /\ Cardinality(image) \in Nat /\ Cardinality(later) \in Nat
        /\ Cardinality(image) <= Cardinality(later)
    BY <2>2, <2>3, ImageBound
  <2> HIDE DEF image
  <2>6. /\ IsFiniteSet(DOMAIN r) /\ Cardinality(DOMAIN r) \in Nat
        /\ Cardinality(DOMAIN r) <= Cardinality(kept) + Cardinality(image)
    BY <2>2, <2>4, <2>5, UnionBound
  <2>7. Cardinality(kept) \in Nat
    BY <2>2, FS_CardinalityType
  <2> QED
    BY <2>5, <2>6, <2>7 DEF kept, later
<1>6. \A p \in DOMAIN r : r[p] \in Contents
  BY <1>1, <1>2, <1>4
<1>7. DOMAIN r \subseteq Seq(Steps)
  <2>1. \A q \in Later(d, place, first) : Moved(q, place, by) \in Seq(Steps)
    BY <1>1, <1>4, MovedIs
  <2> QED
    BY <1>1, <1>2, <2>1
\* Whatever is not in an item to drop is there.
<1>8. ASSUME NEW p \in DOMAIN d, ~IsPrefix(place, p) \/ p = place
      PROVE  p \in DOMAIN r /\ r[p] = d[p]
  <2>1. p \notin Later(d, place, cut)
    BY <1>8 DEF Later, IsStrictPrefix
  <2> QED
    BY <1>2, <2>1
<1>9. <<>> \in DOMAIN r
  <2>1. ~IsPrefix(place, <<>>) \/ place = <<>>
    <3>1. <<>> \in Seq(Steps) /\ (place # <<>> => Len(place) > 0) /\ Len(<<>>) = 0
      BY <1>1
    <3> QED
      BY <3>1 DEF IsPrefix
  <2> QED
    BY <1>1, <1>8, <2>1
\* The items before the cut stay.
<1>10. ASSUME NEW i \in Nat, i < cut, Append(place, Item(i)) \in DOMAIN d
       PROVE  Append(place, Item(i)) \in DOMAIN r
  <2> DEFINE p == Append(place, Item(i))
  <2>1. /\ p \in Seq(Steps) /\ IsPrefix(place, p) /\ Len(p) >= m /\ p[m] = Item(i)
    BY <1>1, StepIs, FrontAppend
  <2>2. p \in DOMAIN d
    BY <1>10
  <2> HIDE DEF p
  <2>3. p \notin Later(d, place, cut)
    BY <1>1, <1>10, <2>1, <2>2, LaterHas
  <2> QED
    BY <1>2, <2>2, <2>3 DEF p
<1>11. ASSUME NEW p \in DOMAIN d, p \notin Later(d, place, cut), p # <<>>
       PROVE  /\ Front(p) \in DOMAIN r
              /\ Holds(r[Front(p)], Last(p))
              /\ Last(p)[1] = "item" =>
                    \A i \in 0 .. Last(p)[2] : Append(Front(p), Item(i)) \in DOMAIN r
  <2>1. /\ p \in Seq(Steps) /\ Front(p) \in Seq(Steps) /\ Last(p) \in Steps
        /\ p = Append(Front(p), Last(p))
        /\ Len(Front(p)) = Len(p) - 1 /\ Len(p) \in Nat \ {0}
        /\ \A n \in 1 .. Len(p) - 1 : Front(p)[n] = p[n]
        /\ Last(p) = p[Len(p)]
    BY <1>1, <1>11, FrontIs
  <2>2. Front(p) \in DOMAIN d /\ Holds(d[Front(p)], Last(p))
    BY <1>1, <1>11, TreeIs
  <2>3. ASSUME Last(p)[1] = "item", NEW i \in 0 .. Last(p)[2]
        PROVE  /\ Append(Front(p), Item(i)) \in DOMAIN d /\ i \in Nat /\ Item(i) \in Steps
               /\ Last(p)[2] \in Nat /\ Last(p) = Item(Last(p)[2])
    <3>1. Append(Front(p), Item(i)) \in DOMAIN d
      BY <1>1, <1>11, <2>3 DEF Tree
    <3> QED
      BY <2>1, <2>3, <3>1, StepIs
  <2>4. CASE ~IsPrefix(place, Front(p))
    <3>1. Front(p) \in DOMAIN r /\ r[Front(p)] = d[Front(p)]
      BY <1>8, <2>2, <2>4
    <3>2. ASSUME Last(p)[1] = "item", NEW i \in 0 .. Last(p)[2]
          PROVE  Append(Front(p), Item(i)) \in DOMAIN r
      <4> DEFINE q == Append(Front(p), Item(i))
      <4>1. q \in DOMAIN d /\ Item(i) \in Steps
        BY <2>3, <3>2
      <4>2. q \in Seq(Steps) /\ q # <<>> /\ Front(q) = Front(p)
        BY <2>1, <4>1, FrontAppend
      <4> HIDE DEF q
      <4>3. ~IsPrefix(place, q) \/ q = place
        BY <1>1, <2>4, <4>2, PrefixFront
      <4> QED
        BY <1>8, <4>1, <4>3 DEF q
    <3> QED
      BY <2>2, <3>1, <3>2
  <2>5. CASE Front(p) = place
    <3>1. Front(p) \in DOMAIN r /\ r[Front(p)] = d[Front(p)]
      BY <1>8, <2>2, <2>5
    <3>2. ASSUME Last(p)[1] = "item", NEW i \in 0 .. Last(p)[2]
          PROVE  Append(Front(p), Item(i)) \in DOMAIN r
      <4>1. PICK k \in Nat : k = Last(p)[2]
        BY <2>3, <3>2
      <4>2. Len(p) >= m /\ p[m] = Item(k) /\ IsPrefix(place, p)
        <5>1. IsPrefix(Front(p), p)
          BY <2>1, <1>11, PrefixFront
        <5> QED
          BY <2>1, <2>3, <2>5, <3>2, <4>1, <5>1
      <4>3. ~(k >= cut)
        BY <1>1, <1>11, <2>1, <4>1, <4>2, LaterHas
      <4>4. i \in Nat /\ i < cut /\ Append(place, Item(i)) \in DOMAIN d
        BY <2>3, <2>5, <3>2, <4>1, <4>3
      <4> QED
        BY <1>10, <2>5, <4>4
    <3> QED
      BY <2>2, <3>1, <3>2
  <2>6. CASE IsPrefix(place, Front(p)) /\ Front(p) # place
    <3> DEFINE f == Front(p)
    <3>1. /\ Len(f) >= m /\ f[m] = p[m] /\ Len(p) >= m
          /\ f[m] \in Steps /\ Holds(d[place], f[m])
      <4>1. Len(place) < Len(f) /\ Holds(d[place], f[m]) /\ f[m] \in Steps
        BY <1>1, <2>1, <2>2, <2>6, TreeBetween
      <4> QED
        BY <1>1, <2>1, <4>1
    <3>2. PICK k \in Nat : f[m] = Item(k)
      <4>1. f[m][1] = "item"
        BY <3>1 DEF Holds, Array, Object
      <4> QED
        BY <3>1, <4>1, StepIs
    <3>3. IsPrefix(place, p)
      BY <1>1, <1>11, <2>1, <2>6, PrefixFront, PrefixOrder
    <3>4. ~(k >= cut)
      BY <1>1, <1>11, <2>1, <3>1, <3>2, <3>3, LaterHas
    <3>5. f \notin Later(d, place, cut)
      BY <1>1, <2>1, <2>2, <2>6, <3>1, <3>2, <3>4, LaterHas
    <3>6. ASSUME Last(p)[1] = "item", NEW i \in 0 .. Last(p)[2]
          PROVE  Append(f, Item(i)) \in DOMAIN r
      <4> DEFINE q == Append(f, Item(i))
      <4>1. q \in DOMAIN d /\ Item(i) \in Steps
        BY <2>3, <3>6
      <4>2. /\ q \in Seq(Steps) /\ IsPrefix(f, q) /\ Len(q) = Len(f) + 1
            /\ \A n \in 1 .. Len(f) : q[n] = f[n]
        BY <2>1, <4>1, FrontAppend
      <4> HIDE DEF q
      <4>3. IsPrefix(place, q)
        BY <1>1, <2>1, <2>6, <4>2, PrefixOrder
      <4>4. Len(q) >= m /\ q[m] = Item(k)
        <5>1. m \in 1 .. Len(f) /\ Len(f) \in Nat
          BY <1>1, <2>1, <3>1
        <5> QED
          BY <3>2, <4>2, <5>1
      <4>5. q \notin Later(d, place, cut)
        BY <1>1, <3>4, <4>1, <4>2, <4>3, <4>4, LaterHas
      <4> QED
        BY <1>2, <4>1, <4>5 DEF q
    <3> QED
      BY <1>2, <2>2, <3>5, <3>6
  <2> QED
    BY <2>4, <2>5, <2>6
<1>12. ASSUME NEW q \in Later(d, place, first), NEW p, p = Moved(q, place, by)
       PROVE  /\ Front(p) \in DOMAIN r
              /\ Holds(r[Front(p)], Last(p))
              /\ Last(p)[1] = "item" =>
                    \A i \in 0 .. Last(p)[2] :
                       \/ Append(Front(p), Item(i)) \in DOMAIN r
                       \/ Front(p) = place /\ i \in cut .. first + by - 1
  <2>1. PICK j \in Nat : /\ q \in DOMAIN d /\ q \in Seq(Steps) /\ IsPrefix(place, q) /\ Len(q) >= m
                         /\ j >= first /\ q[m] = Item(j) /\ j + by \in Nat /\ j + by >= cut
    BY <1>4, <1>12
  <2>2. q # <<>> /\ Front(q) \in DOMAIN d /\ Holds(d[Front(q)], Last(q)) /\ Last(q) \in Steps
        /\ Front(q) \in Seq(Steps)
    <3>1. q # <<>>
      BY <1>1, <2>1
    <3> QED
      BY <1>1, <2>1, <3>1, TreeIs, FrontIs
  <2>3. ASSUME Last(q)[1] = "item", NEW i \in 0 .. Last(q)[2]
        PROVE  Append(Front(q), Item(i)) \in DOMAIN d /\ i \in Nat /\ Item(i) \in Steps
    <3>1. Append(Front(q), Item(i)) \in DOMAIN d
      BY <1>1, <2>1, <2>2, <2>3 DEF Tree
    <3> QED
      BY <2>2, <2>3, <3>1, StepIs
  <2>4. CASE Len(q) = m
    <3>1. /\ Front(q) = place /\ Last(q) = Item(j) /\ q = Append(place, Item(j))
          /\ p = Append(place, Item(j + by))
      <4>1. /\ Front(q) = place /\ Last(q) = Item(j) /\ q = Append(place, Item(j))
            /\ Moved(q, place, by) = Append(place, Item(j + by))
        BY <1>1, <2>1, <2>4, MovedFront
      <4> QED
        BY <1>12, <4>1
    <3>2. Front(p) = place /\ Last(p) = Item(j + by) /\ Last(p)[2] = j + by
      BY <1>1, <2>1, <3>1, StepIs, FrontAppend
    <3>3. place \in DOMAIN r /\ r[place] = d[place] /\ Holds(d[place], Last(p))
      BY <1>8, <2>1, <3>2, StepIs DEF Holds
    <3>4. \A i \in 0 .. j : Append(place, Item(i)) \in DOMAIN d
      BY <2>1, <2>3, <3>1, StepIs
    <3>5. ASSUME NEW i \in 0 .. j + by, i \notin cut .. first + by - 1
          PROVE  Append(place, Item(i)) \in DOMAIN r
      <4>1. CASE i < cut
        <5>1. i \in 0 .. j
          BY <2>1, <4>1
        <5> QED
          BY <1>10, <3>4, <4>1, <5>1
      <4>2. CASE i >= first + by
        <5>1. PICK k \in Nat : k = i - by /\ k + by = i /\ k >= first /\ k \in 0 .. j
          <6>1. i - by \in Nat /\ (i - by) + by = i /\ i - by >= first /\ i - by \in 0 .. j
            BY <2>1, <3>5, <4>2
          <6> QED
            BY <6>1
        <5> DEFINE s == Append(place, Item(k))
        <5>2. s \in DOMAIN d
          BY <3>4, <5>1
        <5>3. /\ s \in Seq(Steps) /\ IsPrefix(place, s) /\ Len(s) = m /\ Len(s) >= m
              /\ s[m] = Item(k)
          BY <1>1, StepIs, FrontAppend
        <5> HIDE DEF s
        <5>4. s \in Later(d, place, first)
          BY <1>1, <5>1, <5>2, <5>3, LaterHas
        <5>5. k + by \in Nat
          BY <5>1
        <5>6. Moved(s, place, by) = Append(place, Item(k + by))
          BY <1>1, <5>3, <5>5, MovedItem
        <5> QED
          BY <1>2, <5>1, <5>4, <5>6
      <4> QED
        BY <3>5, <4>1, <4>2
    <3> QED
      BY <3>2, <3>3, <3>5
  <2>5. CASE Len(q) > m
    <3> DEFINE f == Front(q)
    <3>1. /\ IsPrefix(place, f) /\ f # place /\ f[m] = Item(j)
          /\ Front(p) = Moved(f, place, by) /\ Last(p) = Last(q)
      BY <1>1, <1>12, <2>1, <2>5, MovedFront
    <3>2. f \in DOMAIN d /\ f \in Seq(Steps) /\ Len(f) >= m
      BY <1>1, <2>1, <2>2, <2>5, FrontIs
    <3> HIDE DEF f
    <3>3. f \in Later(d, place, first)
      BY <1>1, <2>1, <3>1, <3>2, LaterHas
    <3>4. Front(p) \in DOMAIN r /\ r[Front(p)] = d[f]
      BY <1>2, <3>1, <3>3
    <3>5. ASSUME Last(p)[1] = "item", NEW i \in 0 .. Last(p)[2]
          PROVE  Append(Front(p), Item(i)) \in DOMAIN r
      <4> DEFINE s == Append(f, Item(i))
      <4>1. s \in DOMAIN d /\ Item(i) \in Steps
        BY <2>3, <3>1, <3>5 DEF f
      <4>2. /\ s \in Seq(Steps) /\ IsPrefix(f, s) /\ Len(s) = Len(f) + 1 /\ s # <<>>
            /\ \A n \in 1 .. Len(f) : s[n] = f[n]
            /\ Front(s) = f /\ Last(s) = Item(i)
        BY <3>2, <4>1, FrontAppend
      <4> HIDE DEF s
      <4>3. IsPrefix(place, s)
        BY <1>1, <3>1, <3>2, <4>2, PrefixOrder
      <4>4. Len(s) > m /\ Len(s) >= m /\ s[m] = Item(j)
        <5>1. m \in 1 .. Len(f) /\ Len(f) \in Nat
          BY <1>1, <3>2
        <5> QED
          BY <3>1, <4>2, <5>1
      <4>5. s \in Later(d, place, first)
        BY <1>1, <2>1, <4>1, <4>2, <4>3, <4>4, LaterHas
      <4> DEFINE t == Moved(s, place, by)
      <4>6. t \in DOMAIN r
        BY <1>2, <4>5
      <4>7. t \in Seq(Steps) /\ t # <<>>
        BY <1>1, <2>1, <4>2, <4>3, <4>4, MovedIs
      <4>8. Front(t) = Moved(f, place, by) /\ Last(t) = Item(i)
        <5>2. /\ place \in Seq(Steps) /\ s \in Seq(Steps) /\ IsPrefix(place, s)
              /\ Len(s) >= Len(place) + 1 /\ Len(s) > Len(place) + 1
              /\ s[Len(place) + 1] = Item(j) /\ j \in Nat /\ by \in Int /\ j + by \in Nat
          BY <1>1, <2>1, <4>2, <4>3, <4>4
        <5> HIDE DEF t, m
        <5>3. /\ Front(Moved(s, place, by)) = Moved(Front(s), place, by)
              /\ Last(Moved(s, place, by)) = Last(s)
          BY <5>2, MovedFront
        <5>1. Front(t) = Moved(Front(s), place, by) /\ Last(t) = Last(s)
          BY <5>3 DEF t
        <5> QED
          BY <4>2, <5>1
      <4> HIDE DEF t
      <4>9. t = Append(Front(t), Last(t))
        BY <4>7, FrontIs
      <4> QED
        BY <3>1, <4>6, <4>8, <4>9
    <3> QED
      BY <2>2, <3>1, <3>4, <3>5 DEF f
  <2> QED
    BY <1>1, <2>1, <2>4, <2>5
<1>13. ASSUME NEW p \in DOMAIN r, p # <<>>
       PROVE  /\ Front(p) \in DOMAIN r
              /\ Holds(r[Front(p)], Last(p))
              /\ Last(p)[1] = "item" =>
                    \A i \in 0 .. Last(p)[2] :
                       \/ Append(Front(p), Item(i)) \in DOMAIN r
                       \/ Front(p) = place /\ i \in cut .. first + by - 1
  BY <1>2, <1>11, <1>12, <1>13
<1> QED
  BY <1>5, <1>6, <1>7, <1>9, <1>13 DEF TreeButItems

-----------------------------------------------------------------------------
(* The operations of a patch keep a document a tree, and none adds more    *)
(* than it is charged for.                                                 *)

\* What an array keeps when its items from one on are numbered anew.
LEMMA PlaceStays ==
  ASSUME NEW d, Contained(d), NEW place \in DOMAIN d, d[place] = Array, NEW n \in Nat
  PROVE  /\ place \notin Later(d, place, n)
         /\ \A i \in Nat : i < n => Append(place, Item(i)) \notin Later(d, place, n)
<1>1. place \in Seq(Steps)
  BY TreeIs DEF Contained
<1>2. place \notin Later(d, place, n)
  BY DEF Later, IsStrictPrefix
<1>3. ASSUME NEW i \in Nat, i < n
      PROVE  Append(place, Item(i)) \notin Later(d, place, n)
  <2>1. Append(place, Item(i))[Len(place) + 1] = Item(i) /\ Item(i)[2] = i
    BY <1>1, StepIs, FrontAppend
  <2>2. ~(i >= n) /\ Append(place, Item(i))[Len(place) + 1][2] = i
    BY <1>3, <2>1
  <2> QED
    BY <2>2 DEF Later
<1> QED
  BY <1>2, <1>3

LEMMA LaterFinite ==
  ASSUME NEW d, Contained(d), NEW place, NEW n
  PROVE  /\ IsFiniteSet(Later(d, place, n)) /\ Cardinality(Later(d, place, n)) \in Nat
         /\ IsFiniteSet(DOMAIN d \ Later(d, place, n))
         /\ Cardinality(DOMAIN d \ Later(d, place, n)) \in Nat
         /\ Cardinality(DOMAIN d \ Later(d, place, n)) + Cardinality(Later(d, place, n)) = Nodes(d)
<1> DEFINE later == Later(d, place, n)
           kept == DOMAIN d \ later
<1>1. IsFiniteSet(DOMAIN d)
  BY TreeIs DEF Contained
<1>2. later \subseteq DOMAIN d
  BY DEF Later
<1> HIDE DEF later
<1>3. IsFiniteSet(later) /\ IsFiniteSet(kept)
  BY <1>1, <1>2, FS_Subset
<1>4. DOMAIN d \cap later = later
  BY <1>2
<1>5. /\ Cardinality(later) \in Nat /\ Cardinality(kept) \in Nat /\ Cardinality(DOMAIN d) \in Nat
  BY <1>1, <1>3, FS_CardinalityType
<1>6. Cardinality(kept) = Cardinality(DOMAIN d) - Cardinality(later)
  BY <1>1, <1>4, FS_Difference
<1>7. Cardinality(kept) + Cardinality(later) = Cardinality(DOMAIN d)
  BY <1>5, <1>6
<1> QED
  BY <1>3, <1>5, <1>7 DEF later, Nodes

\* Vec::insert
LEMMA InsertKeeps ==
  ASSUME NEW d, Contained(d), NEW place \in DOMAIN d, d[place] = Array,
         NEW n \in 0 .. Length(d, place), NEW v, Contained(v)
  PROVE  /\ Contained(InsertItem(d, place, n, v))
         /\ Nodes(InsertItem(d, place, n, v)) <= Nodes(d) + Nodes(v)
<1> DEFINE r == Renumbered(d, place, n, n, 1, -1)
           hole == Append(place, Item(n))
<1>1. Tree(d) /\ place \in Seq(Steps)
  BY TreeIs DEF Contained
<1>2. n \in Nat /\ Length(d, place) \in Nat
  BY <1>1, LengthIs
<1>3. InsertItem(d, place, n, v) = Put(r, hole, v)
  BY DEF InsertItem, Renumbered
<1> HIDE DEF r
<1>4. 1 \in Int /\ -1 \in Int /\ 1 + -1 = 0 /\ n <= n /\ n <= n + 1
  BY <1>2
<1>5. /\ TreeButItems(r, place, n, n + 1)
      /\ Cardinality(DOMAIN r) <=
            Cardinality(DOMAIN d \ Later(d, place, n)) + Cardinality(Later(d, place, n))
  BY <1>2, <1>4, RenumberedKeeps DEF r
<1>6. \A p \in DOMAIN d : p \notin Later(d, place, n) => p \in DOMAIN r /\ r[p] = d[p]
  <2>1. RenumberedAs(r, d, place, n, n, 1)
    BY <1>1, <1>2, <1>4, RenumberedIs DEF r
  <2> QED
    BY <2>1 DEF RenumberedAs
<1>7. ASSUME NEW i \in n .. (n + 1) - 1
      PROVE  i = n
  BY <1>2, <1>7
<1>8. TreeBut(r, hole)
  BY <1>5, <1>7 DEF TreeBut, TreeButItems
<1>9. hole \in Seq(Steps) /\ hole # <<>> /\ Front(hole) = place /\ Last(hole) = Item(n)
      /\ Item(n)[1] = "item" /\ Item(n)[2] = n
  BY <1>1, <1>2, StepIs, FrontAppend
<1>10. place \in DOMAIN r /\ r[place] = Array
  BY <1>2, <1>6, PlaceStays
<1>11. ASSUME NEW i \in 0 .. n
       PROVE  Append(place, Item(i)) \in DOMAIN r \cup {hole}
  <2>1. CASE i = n
    BY <2>1
  <2>2. CASE i < n
    <3>1. i \in Nat /\ i < Length(d, place)
      BY <1>2, <2>2
    <3>2. Append(place, Item(i)) \in DOMAIN d
      BY <1>1, <3>1, ItemIs
    <3>3. Append(place, Item(i)) \notin Later(d, place, n)
      BY <1>2, <2>2, <3>1, PlaceStays
    <3> QED
      BY <1>6, <3>2, <3>3
  <2> QED
    BY <1>2, <2>1, <2>2
<1>12. Open(r, hole)
  BY <1>9, <1>10, <1>11 DEF Open, Holds
<1> HIDE DEF hole
<1>13. /\ Contained(Put(r, hole, v))
       /\ Nodes(Put(r, hole, v)) <= Nodes(r) + Nodes(v)
  BY <1>5, <1>8, <1>9, <1>12, PutKeeps DEF TreeButItems
<1>14. Nodes(r) <= Nodes(d) /\ Nodes(r) \in Nat
  BY <1>5, LaterFinite, FS_CardinalityType DEF Nodes, TreeButItems
<1>15. Nodes(d) \in Nat /\ Nodes(v) \in Nat /\ Nodes(Put(r, hole, v)) \in Nat
  BY <1>13, NodesIs
<1> QED
  BY <1>3, <1>13, <1>14, <1>15 DEF hole

\* Vec::remove
LEMMA RemoveKeeps ==
  ASSUME NEW d, Contained(d), NEW place \in DOMAIN d, d[place] = Array,
         NEW n \in Nat, Append(place, Item(n)) \in DOMAIN d
  PROVE  /\ Contained(RemoveItem(d, place, n))
         /\ Nodes(RemoveItem(d, place, n)) + Nodes(Part(d, Append(place, Item(n)))) <= Nodes(d)
<1> DEFINE r == Renumbered(d, place, n, n + 1, -1, 1)
           item == Append(place, Item(n))
           under == Under(d, item)
           from == Later(d, place, n)
           after == Later(d, place, n + 1)
<1>1. Tree(d) /\ place \in Seq(Steps)
  BY TreeIs DEF Contained
<1>2. RemoveItem(d, place, n) = r
  BY DEF RemoveItem, Renumbered
<1> HIDE DEF r
<1>3. /\ 1 \in Int /\ -1 \in Int /\ -1 + 1 = 0 /\ n + 1 \in Nat
      /\ n <= n + 1 /\ n <= (n + 1) + (-1)
  OBVIOUS
<1>4. /\ TreeButItems(r, place, n, (n + 1) + (-1))
      /\ Cardinality(DOMAIN r) <=
            Cardinality(DOMAIN d \ Later(d, place, n)) + Cardinality(Later(d, place, n + 1))
  BY <1>3, RenumberedKeeps DEF r
<1>5. n .. ((n + 1) + (-1)) - 1 = {}
  OBVIOUS
<1>6. Contained(r)
  BY <1>4, <1>5 DEF Contained, Tree, TreeButItems
<1>7. item \in DOMAIN d /\ item \in Seq(Steps) /\ Len(item) = Len(place) + 1
      /\ IsPrefix(place, item) /\ item[Len(place) + 1] = Item(n)
  BY <1>1, StepIs, FrontAppend
<1> HIDE DEF item
<1>8. ASSUME NEW p \in under
      PROVE  p \in from /\ p \notin after
  <2>1. p \in DOMAIN d /\ p \in Seq(Steps) /\ IsPrefix(item, p)
    BY <1>1, TreeIs DEF Under
  <2>2. IsPrefix(place, p)
    BY <1>1, <1>7, <2>1, PrefixOrder
  <2>3. Len(p) >= Len(place) + 1 /\ p[Len(place) + 1] = Item(n)
    <3>1. Len(item) <= Len(p) /\ \A i \in 1 .. Len(item) : item[i] = p[i]
      BY <1>7, <2>1, PrefixIs
    <3>2. Len(place) + 1 \in 1 .. Len(item)
      BY <1>1, <1>7
    <3> QED
      BY <1>7, <3>1, <3>2
  <2>4. n >= n /\ ~(n >= n + 1) /\ n + 1 \in Nat
    OBVIOUS
  <2> QED
    BY <1>1, <2>1, <2>2, <2>3, <2>4, LaterHas
<1>9. after \subseteq from
  <2> SUFFICES ASSUME NEW p \in after
               PROVE  p \in from
    OBVIOUS
  <2>1. p \in DOMAIN d /\ IsStrictPrefix(place, p) /\ p[Len(place) + 1][2] >= n + 1
    BY DEF Later
  <2>2. p[Len(place) + 1][2] \in Nat
    BY <1>1, <1>3, LaterIs
  <2>3. p[Len(place) + 1][2] >= n
    BY <2>1, <2>2
  <2> QED
    BY <2>1, <2>3 DEF Later
<1>10. /\ IsFiniteSet(from) /\ Cardinality(from) \in Nat
       /\ IsFiniteSet(after) /\ Cardinality(after) \in Nat
       /\ Cardinality(DOMAIN d \ from) \in Nat
       /\ Cardinality(DOMAIN d \ from) + Cardinality(from) = Nodes(d)
  BY LaterFinite
<1>11. IsFiniteSet(under) /\ Nodes(Part(d, item)) <= Cardinality(under)
  BY <1>7, PartKeeps
<1>12. Nodes(Part(d, item)) \in Nat
  BY <1>7, PartKeeps, NodesIs
<1>13. Cardinality(DOMAIN r) <= Cardinality(DOMAIN d \ from) + Cardinality(after)
  BY <1>4
<1> HIDE DEF under, from, after
<1>14. Cardinality(after \cup under) = Cardinality(after) + Cardinality(under)
       /\ Cardinality(under) \in Nat
  <2>1. after \cap under = {}
    BY <1>8
  <2>2. Cardinality(after \cup under) = Cardinality(after) + Cardinality(under) - 0
    BY <1>10, <1>11, <2>1, FS_Union, FS_EmptySet
  <2> QED
    BY <1>10, <1>11, <2>2, FS_CardinalityType
<1>15. Cardinality(after \cup under) <= Cardinality(from)
  <2>1. after \cup under \subseteq from
    BY <1>8, <1>9
  <2> QED
    BY <1>10, <2>1, FS_Subset
<1>16. Nodes(r) \in Nat /\ Nodes(r) = Cardinality(DOMAIN r)
  BY <1>6, NodesIs DEF Nodes
<1>17. Nodes(r) + Nodes(Part(d, item)) <= Nodes(d)
  BY <1>10, <1>11, <1>12, <1>13, <1>14, <1>15, <1>16
<1> QED
  BY <1>2, <1>6, <1>17 DEF item

LEMMA PatchRemoveKeeps ==
  ASSUME NEW d, Contained(d), NEW p \in DOMAIN d, p # <<>>
  PROVE  /\ Contained(PatchRemove(d, p))
         /\ Nodes(PatchRemove(d, p)) + Nodes(Part(d, p)) <= Nodes(d)
<1>1. /\ Tree(d) /\ p \in Seq(Steps) /\ Front(p) \in DOMAIN d /\ Holds(d[Front(p)], Last(p))
      /\ Last(p) \in Steps /\ p = Append(Front(p), Last(p))
  BY TreeIs, FrontIs DEF Contained
<1>2. CASE d[Front(p)] = Array
  <2>1. Last(p)[1] = "item"
    BY <1>1, <1>2 DEF Holds, Array, Object
  <2>2. Last(p)[2] \in Nat /\ Last(p) = Item(Last(p)[2])
    BY <1>1, <2>1, StepIs
  <2>3. Append(Front(p), Item(Last(p)[2])) = p
    BY <1>1, <2>2
  <2> QED
    BY <1>1, <1>2, <2>2, <2>3, RemoveKeeps DEF PatchRemove
<1>3. CASE d[Front(p)] # Array
  <2>1. Last(p)[1] # "item"
    BY <1>1, <1>3 DEF Holds
  <2>2. /\ Contained(Without(d, p)) /\ DOMAIN Without(d, p) = DOMAIN d \ Under(d, p)
    BY <1>1, <2>1, WithoutKeeps
  <2>3. IsFiniteSet(Under(d, p)) /\ Nodes(Part(d, p)) <= Cardinality(Under(d, p))
        /\ Nodes(Part(d, p)) \in Nat
    BY PartKeeps, NodesIs
  <2>4. IsFiniteSet(DOMAIN d) /\ DOMAIN d \cap Under(d, p) = Under(d, p)
    BY <1>1, TreeIs DEF Under
  <2>5. Cardinality(DOMAIN d \ Under(d, p)) = Cardinality(DOMAIN d) - Cardinality(Under(d, p))
    BY <2>4, FS_Difference
  <2>6. Cardinality(Under(d, p)) \in Nat /\ Cardinality(DOMAIN d) \in Nat
    BY <2>3, <2>4, FS_CardinalityType
  <2>7. Nodes(Without(d, p)) = Cardinality(DOMAIN d \ Under(d, p)) /\ Nodes(d) = Cardinality(DOMAIN d)
    BY <2>2 DEF Nodes
  <2>8. Nodes(Without(d, p)) + Nodes(Part(d, p)) <= Nodes(d)
    BY <2>3, <2>5, <2>6, <2>7
  <2> QED
    BY <1>3, <2>2, <2>8 DEF PatchRemove
<1> QED
  BY <1>2, <1>3

LEMMA ArrayIndexIs ==
  ASSUME NEW token, NEW len \in Nat, NEW end \in BOOLEAN, NEW i \in ArrayIndex(token, len, end)
  PROVE  i \in 0 .. len
<1>1. i = len \/ i \in 0 .. len
  BY DEF ArrayIndex
<1> QED
  BY <1>1

LEMMA PatchAddKeeps ==
  ASSUME NEW d, Contained(d), NEW v, Contained(v), NEW tokens \in Seq(Names),
         NEW r \in PatchAdd(d, tokens, v)
  PROVE  Contained(r) /\ Nodes(r) <= Nodes(d) + Nodes(v)
<1>1. Nodes(d) \in Nat /\ Nodes(v) \in Nat
  BY NodesIs
<1>2. CASE tokens = <<>>
  <2>1. r = v
    BY <1>2 DEF PatchAdd
  <2> QED
    BY <1>1, <2>1
<1>3. CASE tokens # <<>>
  <2>1. PICK parent \in Resolve(d, Front(tokens)) :
           r \in IF d[parent] = Object THEN {Put(d, Append(parent, Key(Last(tokens))), v)}
                 ELSE IF d[parent] = Array
                 THEN {InsertItem(d, parent, i, v) :
                          i \in ArrayIndex(Last(tokens), Length(d, parent), TRUE)}
                 ELSE {}
    BY <1>3, Zenon DEF PatchAdd
  <2>2. parent \in DOMAIN d /\ Tree(d) /\ parent \in Seq(Steps)
    BY <2>1, TreeIs DEF Resolve, Contained
  <2>3. CASE d[parent] = Object
    <3> DEFINE place == Append(parent, Key(Last(tokens)))
    <3>1. Last(tokens) \in Names
      BY <1>3, FrontIs
    <3>2. /\ place \in Seq(Steps) /\ place # <<>>
          /\ Front(place) = parent /\ Last(place) = Key(Last(tokens)) /\ Last(place)[1] = "key"
      BY <2>2, <3>1, StepIs, FrontAppend
    <3>3. r = Put(d, place, v)
      BY <2>1, <2>3
    <3> HIDE DEF place
    <3>4. Open(d, place)
      BY <2>2, <2>3, <3>2 DEF Open, Holds
    <3>5. TreeBut(d, place) /\ \A p \in DOMAIN d : d[p] \in Contents
      BY <2>2, TreeOpen DEF Contained
    <3> QED
      BY <3>2, <3>3, <3>4, <3>5, PutKeeps
  <2>4. CASE d[parent] # Object
    <3>1. d[parent] = Array
      BY <2>1, <2>4
    <3>2. PICK i \in ArrayIndex(Last(tokens), Length(d, parent), TRUE) :
             r = InsertItem(d, parent, i, v)
      BY <2>1, <2>4, <3>1
    <3>3. Length(d, parent) \in Nat
      BY <2>2, LengthIs
    <3>4. i \in 0 .. Length(d, parent)
      BY <3>2, <3>3, ArrayIndexIs
    <3> QED
      BY <2>2, <3>1, <3>2, <3>4, InsertKeeps
  <2> QED
    BY <2>3, <2>4
<1> QED
  BY <1>2, <1>3

LEMMA PatchMoveKeeps ==
  ASSUME NEW d, Contained(d), NEW from, NEW to \in Seq(Names), NEW r \in PatchMove(d, from, to)
  PROVE  Contained(r) /\ Nodes(r) <= Nodes(d)
<1>1. PICK p \in Removable(d, from) : r \in PatchAdd(PatchRemove(d, p), to, Part(d, p))
  BY Zenon DEF PatchMove
<1>2. p \in DOMAIN d /\ p # <<>>
  BY <1>1 DEF Removable, Resolve
<1>3. /\ Contained(PatchRemove(d, p)) /\ Contained(Part(d, p))
      /\ Nodes(PatchRemove(d, p)) + Nodes(Part(d, p)) <= Nodes(d)
  BY <1>2, PatchRemoveKeeps, PartKeeps
<1>4. Contained(r) /\ Nodes(r) <= Nodes(PatchRemove(d, p)) + Nodes(Part(d, p))
  BY <1>1, <1>3, PatchAddKeeps
<1>5. /\ Nodes(r) \in Nat /\ Nodes(d) \in Nat /\ Nodes(PatchRemove(d, p)) \in Nat
      /\ Nodes(Part(d, p)) \in Nat
  BY <1>3, <1>4, NodesIs
<1> QED
  BY <1>3, <1>4, <1>5

LEMMA PatchCopyKeeps ==
  ASSUME NEW d, Contained(d), NEW from, NEW to \in Seq(Names), NEW r \in PatchCopy(d, from, to)
  PROVE  Contained(r) /\ Nodes(r) <= Nodes(d) + MaxCopyNodes
<1>1. PICK p \in Resolve(d, from) :
         r \in IF Nodes(Part(d, p)) > MaxCopyNodes THEN {} ELSE PatchAdd(d, to, Part(d, p))
  BY Zenon DEF PatchCopy
<1>2. p \in DOMAIN d
  BY <1>1 DEF Resolve
<1>3. ~(Nodes(Part(d, p)) > MaxCopyNodes) /\ r \in PatchAdd(d, to, Part(d, p))
  BY <1>1
<1>4. Contained(Part(d, p))
  BY <1>2, PartKeeps
<1>5. Contained(r) /\ Nodes(r) <= Nodes(d) + Nodes(Part(d, p))
  BY <1>3, <1>4, PatchAddKeeps
<1>6. Nodes(r) \in Nat /\ Nodes(d) \in Nat /\ Nodes(Part(d, p)) \in Nat /\ MaxCopyNodes \in Nat
  BY <1>4, <1>5, NodesIs, UtilAssumption
<1> QED
  BY <1>3, <1>5, <1>6

LEMMA TokensAre ==
  ASSUME NEW pointers \in SUBSET Pointers
  PROVE  Tokens(pointers) \subseteq Seq(Names)
BY UtilAssumption DEF Tokens

\* What an operation may add: the value it brings, or a copy within the limit.
Charges == {0, MaxCopyNodes} \cup {Nodes(value) : value \in Supplied}

LEMMA ApplyOneKeeps ==
  ASSUME NEW d, Contained(d), NEW op \in Operations, NEW r \in ApplyOne(d, op)
  PROVE  Contained(r) /\ \E more \in Charges : Nodes(r) <= Nodes(d) + more
<1>1. /\ op.path \in SUBSET Pointers /\ op.from \in SUBSET Pointers /\ op.value \in SUBSET Supplied
  BY DEF Operations, OneOrNone
<1> DEFINE results(to) ==
             IF op.op = "add" THEN UNION {PatchAdd(d, to, value) : value \in op.value}
             ELSE IF op.op = "remove" THEN {PatchRemove(d, p) : p \in Removable(d, to)}
             ELSE IF op.op = "replace"
             THEN {Put(d, p, value) : p \in Resolve(d, to), value \in op.value}
             ELSE IF op.op = "move"
             THEN UNION {PatchMove(d, from, to) : from \in Tokens(op.from)}
             ELSE IF op.op = "copy"
             THEN UNION {PatchCopy(d, from, to) : from \in Tokens(op.from)}
             ELSE IF op.op = "test"
             THEN {d : p \in {q \in Resolve(d, to) : Part(d, q) \in op.value}}
             ELSE {}
<1>2. PICK to \in Tokens(op.path) : r \in results(to)
  <2>1. ApplyOne(d, op) = UNION {results(to) : to \in Tokens(op.path)}
    BY DEF ApplyOne
  <2> HIDE DEF results
  <2> QED
    BY <2>1
<1>3. to \in Seq(Names)
  BY <1>1, <1>2, TokensAre
<1>4. Nodes(d) \in Nat /\ MaxCopyNodes \in Nat
  BY NodesIs, UtilAssumption
<1>5. ASSUME NEW value \in op.value
      PROVE  Contained(value) /\ Nodes(value) \in Charges
  BY <1>1, DocsContained DEF Charges
<1>6. CASE op.op = "add"
  <2>1. PICK value \in op.value : r \in PatchAdd(d, to, value)
    BY <1>2, <1>6
  <2>2. Contained(r) /\ Nodes(r) <= Nodes(d) + Nodes(value)
    BY <1>3, <1>5, <2>1, PatchAddKeeps
  <2> QED
    BY <1>5, <2>2
<1>7. CASE op.op = "remove"
  <2>1. PICK p \in Removable(d, to) : r = PatchRemove(d, p)
    BY <1>2, <1>7
  <2>2. p \in DOMAIN d /\ p # <<>>
    BY <2>1 DEF Removable, Resolve
  <2>3. Contained(r) /\ Nodes(r) + Nodes(Part(d, p)) <= Nodes(d) /\ Contained(Part(d, p))
    BY <2>1, <2>2, PatchRemoveKeeps, PartKeeps
  <2>4. Nodes(r) \in Nat /\ Nodes(Part(d, p)) \in Nat
    BY <2>3, NodesIs
  <2> QED
    BY <1>4, <2>3, <2>4 DEF Charges
<1>8. CASE op.op = "replace"
  <2>1. PICK p \in Resolve(d, to), value \in op.value : r = Put(d, p, value)
    BY <1>2, <1>8
  <2>2. p \in DOMAIN d /\ p \in Seq(Steps) /\ Open(d, p) /\ TreeBut(d, p)
    BY <2>1, TreeOpen, TreeIs DEF Resolve, Contained
  <2>3. Contained(r) /\ Nodes(r) <= Nodes(d) + Nodes(value)
    BY <1>5, <2>1, <2>2, PutKeeps DEF Contained
  <2> QED
    BY <1>5, <2>3
<1>9. CASE op.op = "move"
  <2>1. PICK from \in Tokens(op.from) : r \in PatchMove(d, from, to)
    BY <1>2, <1>9
  <2>2. Contained(r) /\ Nodes(r) <= Nodes(d)
    BY <1>3, <2>1, PatchMoveKeeps
  <2> QED
    BY <1>4, <2>2, NodesIs DEF Charges
<1>10. CASE op.op = "copy"
  <2>1. PICK from \in Tokens(op.from) : r \in PatchCopy(d, from, to)
    BY <1>2, <1>10
  <2>2. Contained(r) /\ Nodes(r) <= Nodes(d) + MaxCopyNodes
    BY <1>3, <2>1, PatchCopyKeeps
  <2> QED
    BY <1>4, <2>2, NodesIs DEF Charges
<1>11. CASE op.op = "test"
  <2>1. r = d
    BY <1>2, <1>11
  <2> QED
    BY <1>4, <2>1 DEF Charges
<1>12. op.op \in {"add", "remove", "replace", "move", "copy", "test"}
  BY <1>2
<1> QED
  BY <1>6, <1>7, <1>8, <1>9, <1>10, <1>11, <1>12

-----------------------------------------------------------------------------
(* What every call holds.                                                  *)

\* A place the recursion of the merge is yet to come to is a member of an object
\* of the copy, and no such place is under another.
AtMember(d, place) ==
  place # <<>> => /\ Front(place) \in DOMAIN d /\ d[Front(place)] = Object
                  /\ Last(place)[1] = "key"
Apart(places) == \A p, q \in places : IsPrefix(p, q) => p = q

Merging ==
  /\ \A p \in todo : AtMember(copy, p)
  /\ Apart(todo)

UtilContained == \A d \in {doc, given, copy, patch, new} : Contained(d)

UtilInv ==
  /\ UtilContained
  /\ ops \in 0 .. MaxPatchOps /\ left \in 0 .. ops
  /\ path \in Paths \cup {<<>>}
  /\ at \in Seq(Steps)
  /\ phase \in {"setting", "swapping", "swapped"} => at \in DOMAIN copy
  /\ todo \subseteq DOMAIN (IF phase = "merging" THEN patch ELSE copy)
  /\ text \in Seq(Characters) /\ written \in Seq(Characters)
  /\ phase \notin RewritePhases \cup {"merging"} => todo = {}
  /\ phase = "holding" => at = <<>>
  /\ phase = "setting" => path \in Paths
  /\ phase = "merging" => Merging

LEMMA UtilTyped == UtilInv => UtilTypeOK
BY DEF UtilInv, UtilTypeOK, UtilContained, Contained

LEMMA MemberOpen ==
  ASSUME NEW d, NEW place, AtMember(d, place)
  PROVE  Open(d, place)
BY DEF AtMember, Open, Holds

LEMMA UtilInitially == UtilInit => UtilInv
<1> SUFFICES ASSUME UtilInit
             PROVE  UtilInv
  OBVIOUS
<1> USE DEF UtilInit
<1>1. Contained(doc) /\ Contained(given) /\ Contained(copy)
  BY DocsContained
<1>2. Contained(Single(Null))
  BY SingleContained
<1>3. UtilContained
  BY <1>1, <1>2 DEF UtilContained
<1>4. /\ ops \in 0 .. MaxPatchOps /\ left \in 0 .. ops
      /\ path \in Paths \cup {<<>>} /\ at \in Seq(Steps)
      /\ text \in Seq(Characters) /\ written \in Seq(Characters)
  BY UtilAssumption
<1> QED
  BY <1>3, <1>4 DEF UtilInv, RewritePhases

\* A step that changes no document but for the copy, which it may return.
LEMMA SameDocuments ==
  ASSUME UtilContained, copy' = copy, doc' \in {doc, copy}, given' = given,
         patch' \in {patch} \cup Supplied, new' \in {new} \cup Supplied
  PROVE  UtilContained'
BY DocsContained DEF UtilContained

\* One that works on the copy.
LEMMA CopyChanged ==
  ASSUME UtilContained, Contained(copy'), doc' \in {doc, copy'}, given' = given,
         patch' = patch, new' = new
  PROVE  UtilContained'
BY DEF UtilContained

-----------------------------------------------------------------------------

LEMMA UtilApplies ==
  ASSUME UtilInv, NEW op \in Operations, Apply(op)
  PROVE  UtilInv'
<1>1. /\ UtilContained /\ ops \in 0 .. MaxPatchOps /\ left \in 0 .. ops /\ todo = {}
      /\ phase = "patching" /\ left > 0 /\ MaxPatchOps \in Nat
      /\ path \in Paths \cup {<<>>} /\ at \in Seq(Steps)
      /\ text \in Seq(Characters) /\ written \in Seq(Characters)
  BY UtilAssumption DEF UtilInv, Apply, RewritePhases
<1>2. /\ phase' \in {"patching", "failed"}
      /\ UNCHANGED <<doc, given, ops, patch, path, new, at, todo, text, written>>
      /\ left' = left \/ left' = left - 1
      /\ copy' = copy \/ copy' \in ApplyOne(copy, op)
  BY <1>1 DEF Apply, setVars, swapVars
<1>3. Contained(copy')
  BY <1>1, <1>2, ApplyOneKeeps DEF UtilContained
<1>4. UtilContained'
  BY <1>1, <1>2, <1>3, CopyChanged
<1>5. left' \in 0 .. ops
  BY <1>1, <1>2
<1> QED
  BY <1>1, <1>2, <1>4, <1>5 DEF UtilInv

\* A step of json_merge_patch leaves the other places members of objects.
LEMMA MergePlaces ==
  ASSUME Merging, Contained(copy), Contained(patch), todo \subseteq DOMAIN patch,
         NEW place \in todo, NEW after, Contained(after),
         NEW children \in SUBSET Children(patch, place),
         \A p \in DOMAIN copy : ~IsPrefix(place, p) => p \in DOMAIN after /\ after[p] = copy[p],
         children # {} => /\ place \in DOMAIN after /\ after[place] = Object
                          /\ patch[place] = Object,
         NEW rest, rest = (todo \ {place}) \cup children
  PROVE  /\ rest \subseteq DOMAIN patch
         /\ \A p \in rest : AtMember(after, p)
         /\ Apart(rest)
<1>1. /\ todo \subseteq Seq(Steps) /\ DOMAIN patch \subseteq Seq(Steps)
      /\ DOMAIN copy \subseteq Seq(Steps)
  BY TreeIs DEF Contained
<1>2. ASSUME NEW p \in children
      PROVE  /\ p \in DOMAIN patch /\ p # <<>> /\ Front(p) = place
             /\ p \in Seq(Steps) /\ Len(p) = Len(place) + 1 /\ IsPrefix(place, p)
             /\ Last(p)[1] = "key"
  <2>1. p \in DOMAIN patch /\ p # <<>> /\ Front(p) = place
    BY <1>2 DEF Children
  <2>2. p \in Seq(Steps) /\ Len(p) = Len(place) + 1 /\ IsPrefix(place, p)
    <3>1. p \in Seq(Steps) /\ place \in Seq(Steps)
      BY <1>1, <2>1
    <3> QED
      BY <2>1, <3>1, FrontIs, PrefixFront
  <2>3. patch[place] = Object /\ Holds(patch[Front(p)], Last(p))
    BY <1>2, <2>1, TreeIs DEF Contained
  <2>4. Last(p)[1] = "key"
    BY <2>1, <2>3 DEF Holds, Object, Array
  <2> QED
    BY <2>1, <2>2, <2>4
<1>3. ASSUME NEW p \in todo \ {place}
      PROVE  p \in Seq(Steps) /\ ~IsPrefix(place, p) /\ ~IsPrefix(p, place)
  BY <1>1, <1>3 DEF Merging, Apart
<1>4. ASSUME NEW p \in rest
      PROVE  AtMember(after, p)
  <2>1. CASE p \in children
    BY <1>2, <2>1 DEF AtMember
  <2>2. CASE p \in todo \ {place} /\ p # <<>>
    <3>1. AtMember(copy, p)
      BY <2>2 DEF Merging
    <3>2. ~IsPrefix(place, Front(p))
      BY <1>1, <1>3, <2>2, PrefixFront
    <3> QED
      BY <2>2, <3>1, <3>2 DEF AtMember
  <2>3. CASE p = <<>>
    BY <2>3 DEF AtMember
  <2> QED
    BY <2>1, <2>2, <2>3
<1>5. ASSUME NEW p \in rest, NEW q \in rest, IsPrefix(p, q)
      PROVE  p = q
  <2>1. CASE p \in children /\ q \in children
    BY <1>2, <1>5, <2>1, PrefixOrder
  <2>2. CASE p \in children /\ q \in todo \ {place}
    <3>1. IsPrefix(place, q)
      BY <1>1, <1>2, <1>3, <1>5, <2>2, PrefixOrder
    <3> QED
      BY <1>3, <2>2, <3>1
  <2>3. CASE p \in todo \ {place} /\ q \in children
    <3>1. p # q
      BY <1>2, <1>3, <2>3
    <3>2. IsPrefix(p, Front(q))
      BY <1>2, <1>3, <1>5, <2>3, <3>1, PrefixFront
    <3> QED
      BY <1>2, <1>3, <2>3, <3>2
  <2>4. CASE p \in todo \ {place} /\ q \in todo \ {place}
    BY <1>5, <2>4 DEF Merging, Apart
  <2> QED
    BY <2>1, <2>2, <2>3, <2>4
<1>6. rest \subseteq DOMAIN patch
  BY <1>2
<1> QED
  BY <1>4, <1>5, <1>6 DEF Apart

LEMMA UtilMerges ==
  ASSUME UtilInv, NEW place \in todo, MergeTurn(place)
  PROVE  UtilInv'
<1>1. /\ phase = "merging" /\ UNCHANGED <<phase, doc, given, ops, left, patch, path, new, at, text, written>>
      /\ UtilContained /\ Merging /\ todo \subseteq DOMAIN patch
      /\ ops \in 0 .. MaxPatchOps /\ left \in 0 .. ops
      /\ path \in Paths \cup {<<>>} /\ at \in Seq(Steps)
      /\ text \in Seq(Characters) /\ written \in Seq(Characters)
  BY DEF UtilInv, MergeTurn, setVars, swapVars, patchVars
<1>2. /\ Contained(copy) /\ Contained(patch) /\ place \in DOMAIN patch /\ place \in Seq(Steps)
      /\ DOMAIN copy \subseteq Seq(Steps) /\ DOMAIN patch \subseteq Seq(Steps)
  BY <1>1, TreeIs DEF UtilContained, Contained
<1>3. /\ AtMember(copy, place) /\ Open(copy, place) /\ TreeBut(copy, place)
  BY <1>1, <1>2, MemberOpen, TreeOpen DEF Merging, Contained
<1>4. PICK children \in SUBSET Children(patch, place) :
         /\ todo' = (todo \ {place}) \cup children
         /\ children # {} => patch[place] = Object
         /\ patch[place] = Object => children = Children(patch, place)
  <2>1. CASE patch[place] = Object
    BY <2>1 DEF MergeTurn
  <2>2. CASE patch[place] # Object
    <3>1. todo' = (todo \ {place}) \cup {} /\ {} \in SUBSET Children(patch, place)
      BY <2>2 DEF MergeTurn
    <3> QED
      BY <2>2, <3>1
  <2> QED
    BY <2>1, <2>2
<1>5. /\ Contained(copy')
      /\ \A p \in DOMAIN copy : ~IsPrefix(place, p) => p \in DOMAIN copy' /\ copy'[p] = copy[p]
      /\ patch[place] = Object => place \in DOMAIN copy' /\ copy'[place] = Object
  <2>1. CASE patch[place] = Object
    <3>1. copy' = AsObject(copy, place)
      BY <2>1 DEF MergeTurn
    <3> QED
      BY <1>2, <1>3, <3>1, AsObjectKeeps
  <2>2. CASE patch[place] = Null /\ place # <<>>
    <3>1. copy' = Without(copy, place)
      BY <2>2 DEF MergeTurn, Null, Object
    <3>2. Last(place)[1] # "item"
      BY <1>3, <2>2 DEF AtMember
    <3>3. /\ Contained(Without(copy, place))
          /\ DOMAIN Without(copy, place) = DOMAIN copy \ Under(copy, place)
          /\ \A p \in DOMAIN Without(copy, place) : Without(copy, place)[p] = copy[p]
      BY <1>2, <2>2, <3>2, WithoutKeeps
    <3> QED
      BY <2>2, <3>1, <3>3 DEF Under, Null, Object
  <2>3. CASE patch[place] # Object /\ ~(patch[place] = Null /\ place # <<>>)
    <3>1. copy' = Put(copy, place, Part(patch, place))
      BY <2>3 DEF MergeTurn
    <3>2. Contained(Part(patch, place))
      BY <1>2, PartKeeps
    <3>3. Contained(Put(copy, place, Part(patch, place)))
      BY <1>2, <1>3, <3>2, PutKeeps DEF Contained
    <3>4. DOMAIN Part(patch, place) \subseteq Seq(Steps)
      BY <3>2, TreeIs DEF Contained
    <3>5. \A p \in DOMAIN copy : ~IsPrefix(place, p) =>
              /\ p \in DOMAIN Put(copy, place, Part(patch, place))
              /\ Put(copy, place, Part(patch, place))[p] = copy[p]
      BY <1>2, <3>4, PutIs
    <3> QED
      BY <2>3, <3>1, <3>3, <3>5
  <2> QED
    BY <2>1, <2>2, <2>3
<1>6. /\ todo' \subseteq DOMAIN patch /\ \A p \in todo' : AtMember(copy', p)
      /\ Apart(todo')
  BY <1>1, <1>2, <1>4, <1>5, MergePlaces
<1>7. UtilContained'
  BY <1>1, <1>5, CopyChanged
<1>8. Merging'
  BY <1>6 DEF Merging, AtMember, Apart
<1> QED
  BY <1>1, <1>6, <1>7, <1>8 DEF UtilInv, RewritePhases

-----------------------------------------------------------------------------

\* The segment in hand is a text.
LEMMA SegmentIs ==
  ASSUME UtilInv, phase = "setting", Len(at) <= Len(path) - 1
  PROVE  /\ path \in Seq(Names) /\ at \in Seq(Steps) /\ Len(at) \in Nat /\ Len(path) \in Nat
         /\ Segment \in Names /\ Key(Segment) \in Steps
         /\ Key(Segment)[1] = "key"
<1>1. path \in Seq(Names) /\ at \in Seq(Steps)
  BY UtilAssumption DEF UtilInv
<1>2. Len(at) \in Nat /\ Len(path) \in Nat /\ Len(at) + 1 \in 1 .. Len(path)
  BY <1>1
<1>3. Segment \in Names
  BY <1>1, <1>2 DEF Segment
<1> QED
  BY <1>1, <1>2, <1>3, StepIs

\* A value put under a key of what was made an object.
LEMMA KeyPut ==
  ASSUME NEW d, Contained(d), NEW place \in DOMAIN d, NEW name \in Names, NEW v, Contained(v)
  PROVE  /\ Contained(Put(AsObject(d, place), Append(place, Key(name)), v))
         /\ Contained(AsObject(d, place))
         /\ Append(place, Key(name)) \in DOMAIN Put(AsObject(d, place), Append(place, Key(name)), v)
<1> DEFINE o == AsObject(d, place)
           next == Append(place, Key(name))
<1>1. place \in Seq(Steps) /\ Open(d, place)
  BY TreeIs, TreeOpen DEF Contained
<1>2. Contained(o) /\ place \in DOMAIN o /\ o[place] = Object
  BY <1>1, AsObjectKeeps
<1>3. /\ next \in Seq(Steps) /\ Front(next) = place /\ Last(next) = Key(name) /\ Last(next)[1] = "key"
  BY <1>1, StepIs, FrontAppend
<1> HIDE DEF o, next
<1>4. Open(o, next)
  BY <1>2, <1>3 DEF Open, Holds
<1>5. TreeBut(o, next) /\ (\A p \in DOMAIN o : o[p] \in Contents) /\ DOMAIN o \subseteq Seq(Steps)
  BY <1>2, TreeOpen, TreeIs DEF Contained
<1>6. <<>> \in DOMAIN v /\ next \o <<>> = next /\ DOMAIN v \subseteq Seq(Steps)
  BY <1>3, TreeIs, ConcatEmptySeq DEF Contained
<1>7. next \in DOMAIN Put(o, next, v)
  BY <1>3, <1>5, <1>6, PutIs
<1> QED
  BY <1>2, <1>3, <1>4, <1>5, <1>7, PutKeeps DEF o, next

LEMMA UtilSteps ==
  ASSUME UtilInv, StepToItem \/ StepToKey
  PROVE  UtilInv'
<1>1. /\ OnParent /\ phase = "setting" /\ Len(at) <= Len(path) - 1
      /\ path \in Paths /\ todo = {}
      /\ UtilContained /\ Contained(copy) /\ at \in DOMAIN copy
      /\ ops \in 0 .. MaxPatchOps /\ left \in 0 .. ops
      /\ path \in Paths \cup {<<>>} /\ at \in Seq(Steps)
      /\ text \in Seq(Characters) /\ written \in Seq(Characters)
  <2>1. OnParent
    BY DEF StepToItem, StepToKey
  <2>2. phase = "setting" /\ Len(at) < Len(path) - 1
    BY <2>1 DEF OnParent
  <2>3. path \in Seq(Names) /\ at \in Seq(Steps)
    BY <2>2, UtilAssumption DEF UtilInv
  <2>4. Len(at) <= Len(path) - 1
    BY <2>2, <2>3
  <2> QED
    BY <2>1, <2>2, <2>4 DEF UtilInv, RewritePhases, UtilContained
<1>2. UNCHANGED <<doc, given, ops, left, patch, path, new, todo, text, written>>
  BY DEF StepToItem, StepToKey, setVars, swapVars, patchVars
<1>3. /\ Contained(copy') /\ at' \in Seq(Steps) /\ phase' \in {"setting", "failed"}
      /\ at' \in DOMAIN copy'
  <2>1. CASE StepToItem /\ phase' = "failed" /\ at' = at /\ copy' = copy
    BY <1>1, <2>1
  <2>2. CASE StepToItem /\ ~(phase' = "failed" /\ at' = at /\ copy' = copy)
    <3>1. /\ copy[at] = Array /\ phase' = phase /\ copy' = copy
          /\ \E i \in Indexed(copy, at, Segment) : at' = Append(at, Item(i))
      BY <2>2 DEF StepToItem
    <3>2. PICK i \in 0 .. Length(copy, at) - 1 : at' = Append(at, Item(i))
      BY <3>1 DEF Indexed
    <3>3. Length(copy, at) \in Nat
      BY <1>1, LengthIs DEF Contained
    <3>4. i \in Nat /\ i < Length(copy, at)
      BY <3>2, <3>3
    <3>5. Append(at, Item(i)) \in DOMAIN copy
      BY <1>1, <3>1, <3>4, ItemIs DEF Contained
    <3> QED
      BY <1>1, <3>1, <3>2, <3>4, <3>5, StepIs, FrontAppend
  <2>3. CASE StepToKey
    <3> DEFINE object == AsObject(copy, at)
               next == Append(at, Key(Segment))
    <3>1. /\ phase' = phase /\ at' = next
          /\ copy' = IF next \in DOMAIN object THEN object ELSE Put(object, next, Single(Object))
      BY <2>3 DEF StepToKey
    <3>2. Segment \in Names /\ Key(Segment) \in Steps
      BY <1>1, SegmentIs
    <3>3. next \in Seq(Steps)
      BY <1>1, <3>2, FrontAppend
    <3>4. Contained(Single(Object))
      BY SingleContained
    <3>5. /\ Contained(Put(object, next, Single(Object))) /\ Contained(object)
          /\ next \in DOMAIN Put(object, next, Single(Object))
      BY <1>1, <3>2, <3>4, KeyPut
    <3> HIDE DEF object, next
    <3> QED
      BY <1>1, <3>1, <3>3, <3>5
  <2> QED
    BY <2>1, <2>2, <2>3
<1>4. UtilContained'
  BY <1>1, <1>2, <1>3, CopyChanged
<1> QED
  BY <1>1, <1>2, <1>3, <1>4 DEF UtilInv, RewritePhases

LEMMA UtilWrites ==
  ASSUME UtilInv, WriteLast
  PROVE  UtilInv'
<1>1. /\ phase = "setting" /\ Len(at) = Len(path) - 1
      /\ path \in Paths /\ todo = {}
      /\ UtilContained /\ Contained(copy) /\ Contained(new) /\ at \in DOMAIN copy
      /\ ops \in 0 .. MaxPatchOps /\ left \in 0 .. ops
      /\ path \in Paths \cup {<<>>} /\ at \in Seq(Steps)
      /\ text \in Seq(Characters) /\ written \in Seq(Characters)
  BY DEF UtilInv, RewritePhases, UtilContained, WriteLast
<1>2. /\ UNCHANGED <<given, ops, left, patch, path, new, at, todo, text, written>>
      /\ phase' = "set" /\ doc' = copy'
  BY DEF WriteLast, setVars, swapVars, patchVars
<1>3. Contained(copy')
  <2>0. Segment \in Names
    <3>1. Len(at) <= Len(path) - 1
      BY <1>1
    <3> QED
      BY <1>1, <3>1, SegmentIs
  <2>1. CASE copy[at] = Array /\ Indexed(copy, at, Segment) # {}
    <3>1. PICK i \in 0 .. Length(copy, at) - 1 : copy' = Put(copy, Append(at, Item(i)), new)
      BY <2>1 DEF WriteLast, Indexed
    <3> DEFINE place == Append(at, Item(i))
    <3>2. Length(copy, at) \in Nat
      BY <1>1, LengthIs DEF Contained
    <3>3. i \in Nat /\ i < Length(copy, at)
      BY <3>1, <3>2
    <3>4. place \in DOMAIN copy
      BY <1>1, <2>1, <3>3, ItemIs DEF Contained
    <3> HIDE DEF place
    <3>5. /\ place \in Seq(Steps) /\ Open(copy, place) /\ TreeBut(copy, place)
          /\ \A p \in DOMAIN copy : copy[p] \in Contents
      BY <1>1, <3>4, TreeIs, TreeOpen DEF Contained
    <3> QED
      BY <1>1, <3>1, <3>5, PutKeeps DEF place
  <2>2. CASE ~(copy[at] = Array /\ Indexed(copy, at, Segment) # {})
    <3>1. copy' = Put(AsObject(copy, at), Append(at, Key(Segment)), new)
      BY <2>2 DEF WriteLast
    <3> QED
      BY <1>1, <2>0, <3>1, KeyPut
  <2> QED
    BY <2>1, <2>2
<1>4. UtilContained'
  BY <1>1, <1>2, <1>3, CopyChanged
<1> QED
  BY <1>1, <1>2, <1>4 DEF UtilInv, RewritePhases

-----------------------------------------------------------------------------

\* A text that is rewritten is alone at its place.
LEMMA UtilPuts ==
  ASSUME UtilInv, RewriteInv, PutText
  PROVE  UtilInv'
<1>1. /\ phase = "swapped" /\ copy[at].k = "text" /\ at \in DOMAIN copy
      /\ UtilContained /\ Contained(copy) /\ todo \subseteq DOMAIN copy
      /\ ops \in 0 .. MaxPatchOps /\ left \in 0 .. ops
      /\ path \in Paths \cup {<<>>} /\ at \in Seq(Steps)
      /\ text \in Seq(Characters) /\ written \in Seq(Characters)
  BY DEF UtilInv, RewriteInv, UtilContained, PutText
<1>2. /\ UNCHANGED <<doc, given, ops, left, patch, path, new, at, todo, text, written>>
      /\ phase' = "visiting" /\ copy' = [copy EXCEPT ![at] = Text(written)]
  BY DEF PutText, setVars, swapVars, patchVars
<1>3. DOMAIN copy' = DOMAIN copy /\ copy'[at] = Text(written)
      /\ \A p \in DOMAIN copy : p # at => copy'[p] = copy[p]
  BY <1>1, <1>2
<1>4. \A p \in DOMAIN copy' : copy'[p] \in Contents
  <2>1. Text(written) \in Contents
    BY <1>1 DEF Text, Contents
  <2> QED
    BY <1>1, <1>3, <2>1 DEF Contained
<1>5. Tree(copy')
  <2>1. ASSUME NEW p \in DOMAIN copy \ {<<>>}
        PROVE  Holds(copy'[Front(p)], Last(p))
    <3>1. Front(p) \in DOMAIN copy /\ Holds(copy[Front(p)], Last(p))
      BY <1>1, <2>1, TreeIs DEF Contained
    <3>2. Front(p) # at
      BY <1>1, <3>1 DEF Holds, Object, Array
    <3> QED
      BY <1>3, <3>1, <3>2
  <2> QED
    BY <1>1, <1>3, <2>1 DEF Contained, Tree
<1>6. UtilContained'
  BY <1>1, <1>2, <1>4, <1>5, CopyChanged DEF Contained
<1> QED
  BY <1>1, <1>2, <1>3, <1>6 DEF UtilInv, RewritePhases

LEMMA PatchBegins ==
  ASSUME NEW n \in 0 .. MaxPatchOps + 1, NEW list \in BOOLEAN, BeginPatch(n, list)
  PROVE  /\ UNCHANGED <<doc, given, copy, patch, path, new, at, todo, text, written>>
         /\ phase = "holding"
         /\ \/ phase' = "patching" /\ n <= MaxPatchOps /\ ops' = n /\ left' = n
            \/ phase' = "failed" /\ ops' = ops /\ left' = left
<1> DEFINE fits == list /\ n <= MaxPatchOps
<1>1. fits => n <= MaxPatchOps
  BY Zenon
<1>2. /\ phase = "holding"
      /\ IF fits THEN phase' = "patching" /\ ops' = n /\ left' = n
         ELSE phase' = "failed" /\ UNCHANGED patchVars
      /\ UNCHANGED <<doc, given, copy, patch, setVars, at, todo, swapVars>>
  BY Zenon DEF BeginPatch
<1> HIDE DEF fits
<1> QED
  BY <1>1, <1>2 DEF setVars, swapVars, patchVars

LEMMA UtilKept == UtilInv /\ RewriteInv /\ [UtilNext]_utilVars => UtilInv'
<1> SUFFICES ASSUME UtilInv, RewriteInv, [UtilNext]_utilVars
             PROVE  UtilInv'
  OBVIOUS
<1>0. /\ UtilContained
      /\ ops \in 0 .. MaxPatchOps /\ left \in 0 .. ops
      /\ path \in Paths \cup {<<>>}
      /\ at \in Seq(Steps)
      /\ phase \in {"setting", "swapping", "swapped"} => at \in DOMAIN copy
      /\ todo \subseteq DOMAIN (IF phase = "merging" THEN patch ELSE copy)
      /\ text \in Seq(Characters) /\ written \in Seq(Characters)
      /\ phase \notin RewritePhases \cup {"merging"} => todo = {}
      /\ phase = "holding" => at = <<>>
      /\ phase = "setting" => path \in Paths
      /\ phase = "merging" => Merging
      /\ Contained(copy) /\ Contained(patch) /\ MaxPatchOps \in Nat
      /\ <<>> \in DOMAIN copy
  BY TreeIs, UtilAssumption DEF UtilInv, UtilContained, Contained
<1>1. ASSUME NEW n \in 0 .. MaxPatchOps + 1, NEW list \in BOOLEAN, BeginPatch(n, list)
      PROVE  UtilInv'
  <2>1. /\ UNCHANGED <<doc, given, copy, patch, path, new, at, todo, text, written>>
        /\ phase = "holding"
        /\ \/ phase' = "patching" /\ n <= MaxPatchOps /\ ops' = n /\ left' = n
           \/ phase' = "failed" /\ ops' = ops /\ left' = left
    BY <1>1, PatchBegins
  <2>2. UtilContained'
    BY <1>0, <2>1, SameDocuments
  <2>3. ops' \in 0 .. MaxPatchOps /\ left' \in 0 .. ops'
    BY <1>0, <2>1
  <2> QED
    BY <1>0, <2>1, <2>2, <2>3 DEF UtilInv, RewritePhases
<1>2. ASSUME EndPatch \/ EndMerge \/ EndRewrite
      PROVE  UtilInv'
  <2>1. /\ UNCHANGED <<given, copy, ops, left, patch, path, new, at, todo, text, written>>
        /\ doc' = copy /\ phase' \in {"patched", "merged", "rewritten"} /\ todo = {}
    BY <1>0, <1>2 DEF EndPatch, EndMerge, EndRewrite, Return, setVars, swapVars, patchVars, RewritePhases
  <2>2. UtilContained'
    BY <1>0, <2>1, SameDocuments
  <2> QED
    BY <1>0, <2>1, <2>2 DEF UtilInv, RewritePhases
<1>3. ASSUME NEW supplied \in Supplied, BeginMerge(supplied)
      PROVE  UtilInv'
  <2>1. /\ UNCHANGED <<doc, given, copy, ops, left, path, new, at, text, written>>
        /\ patch' = supplied /\ phase' = "merging" /\ todo' = {<<>>}
    BY <1>3 DEF BeginMerge, setVars, swapVars, patchVars
  <2>2. UtilContained'
    BY <1>0, <2>1, SameDocuments
  <2>3. todo' \subseteq DOMAIN patch'
    BY <2>1, <2>2, TreeIs DEF UtilContained, Contained
  <2>4. Merging'
    BY <2>1 DEF Merging, AtMember, Apart
  <2> QED
    BY <1>0, <2>1, <2>2, <2>3, <2>4 DEF UtilInv, RewritePhases
<1>4. ASSUME NEW segments \in Paths, NEW value \in Supplied, BeginSet(segments, value)
      PROVE  UtilInv'
  <2>1. /\ UNCHANGED <<doc, given, copy, ops, left, patch, at, todo, text, written>>
        /\ phase = "holding" /\ phase' \in {"failed", "setting"} /\ path' = segments /\ new' = value
    BY <1>4 DEF BeginSet, setVars, swapVars, patchVars
  <2>2. UtilContained'
    BY <1>0, <2>1, SameDocuments
  <2> QED
    BY <1>0, <2>1, <2>2 DEF UtilInv, RewritePhases
<1>5. ASSUME BeginRewrite
      PROVE  UtilInv'
  <2>1. /\ UNCHANGED <<doc, given, copy, ops, left, patch, path, new, at, text, written>>
        /\ phase' = "visiting" /\ todo' = {<<>>}
    BY <1>5 DEF BeginRewrite, setVars, swapVars, patchVars
  <2>2. UtilContained'
    BY <1>0, <2>1, SameDocuments
  <2> QED
    BY <1>0, <2>1, <2>2 DEF UtilInv, RewritePhases
<1>6. ASSUME NEW place \in todo, Visit(place)
      PROVE  UtilInv'
  <2>1. /\ UNCHANGED <<phase, doc, given, copy, ops, left, patch, path, new, at, text, written>>
        /\ phase = "visiting" /\ todo' = (todo \ {place}) \cup Children(copy, place)
    BY <1>6 DEF Visit, setVars, swapVars, patchVars
  <2>2. UtilContained'
    BY <1>0, <2>1, SameDocuments
  <2>3. todo' \subseteq DOMAIN copy
    BY <1>0, <2>1 DEF Children
  <2> QED
    BY <1>0, <2>1, <2>2, <2>3 DEF UtilInv, RewritePhases
<1>7. ASSUME NEW place \in todo, TakeText(place)
      PROVE  UtilInv'
  <2>1. /\ UNCHANGED <<doc, given, copy, ops, left, patch, path, new>>
        /\ phase = "visiting" /\ phase' = "swapping" /\ todo' = todo \ {place} /\ at' = place
        /\ copy[place].k = "text" /\ text' = copy[place].v /\ written' = <<>>
    BY <1>7 DEF TakeText, setVars, swapVars, patchVars
  <2>2. UtilContained'
    BY <1>0, <2>1, SameDocuments
  <2>3. place \in DOMAIN copy /\ place \in Seq(Steps) /\ copy[place] \in Contents
    BY <1>0, <2>1, TreeIs DEF Contained
  <2>4. text' \in Seq(Characters) /\ written' \in Seq(Characters)
    BY <2>1, <2>3 DEF Contents, Null, Object, Array
  <2> QED
    BY <1>0, <2>1, <2>2, <2>3, <2>4 DEF UtilInv, RewritePhases
<1>8. ASSUME Swapping
      PROVE  UtilInv'
  <2>1. /\ UNCHANGED <<doc, given, copy, ops, left, patch, path, new, at, todo>>
        /\ phase = "swapping" /\ phase' \in {"swapping", "swapped"}
    BY <1>8 DEF Swapping, SwapNext, SwapTurn, EndSwap, setVars, patchVars
  <2>2. UtilContained'
    BY <1>0, <2>1, SameDocuments
  <2>3. SwapInv'
    BY <1>8, <2>1, SwapInductive DEF Swapping, RewriteInv
  <2>4. text' \in Seq(Characters) /\ written' \in Seq(Characters)
    BY <2>1, <2>3 DEF SwapInv, SwapTypeOK
  <2> QED
    BY <1>0, <2>1, <2>2, <2>4 DEF UtilInv, RewritePhases
<1>9. ASSUME UNCHANGED utilVars
      PROVE  UtilInv'
  BY <1>9 DEF utilVars, patchVars, setVars, swapVars, UtilInv, UtilContained, Contained, Merging, AtMember, Apart
<1> QED
  BY <1>1, <1>2, <1>3, <1>4, <1>5, <1>6, <1>7, <1>8, <1>9,
     UtilApplies, UtilMerges, UtilSteps, UtilWrites, UtilPuts
     DEF UtilNext

\* What every call holds is a document, its arrays numbered without a gap, and every
\* place a call goes to is there, for documents, patches and paths of any size.
THEOREM UtilTypeCorrect == UtilSpec => []UtilTypeOK
<1>1. UtilInit => UtilInv /\ RewriteInv
  BY UtilInitially, RewriteInitially
<1>2. UtilInv /\ RewriteInv /\ [UtilNext]_utilVars => UtilInv' /\ RewriteInv'
  BY UtilKept, RewriteKept
<1> QED
  BY <1>1, <1>2, UtilTyped, PTL DEF UtilSpec

-----------------------------------------------------------------------------
(* How much a patch may add.                                               *)

GrowthInv ==
  /\ phase = "holding" => copy = given
  /\ GrowthBounded

LEMMA GrowthKept == UtilInv /\ GrowthInv /\ [UtilNext]_utilVars => GrowthInv'
<1> SUFFICES ASSUME UtilInv, GrowthInv, [UtilNext]_utilVars
             PROVE  GrowthInv'
  OBVIOUS
<1>0. /\ Contained(copy) /\ Contained(given) /\ ops \in 0 .. MaxPatchOps /\ left \in 0 .. ops
      /\ MaxPatchOps \in Nat /\ MaxCopyNodes \in Nat
  BY UtilAssumption DEF UtilInv, UtilContained
<1>1. ASSUME NEW n \in 0 .. MaxPatchOps + 1, NEW list \in BOOLEAN, BeginPatch(n, list)
      PROVE  GrowthInv'
  <2>1. /\ \/ phase' = "failed"
           \/ phase' = "patching" /\ ops' = n /\ left' = n
        /\ copy' = given /\ given' = given
    <3>1. /\ UNCHANGED <<doc, given, copy, patch, path, new, at, todo, text, written>>
          /\ phase = "holding"
          /\ \/ phase' = "patching" /\ n <= MaxPatchOps /\ ops' = n /\ left' = n
             \/ phase' = "failed" /\ ops' = ops /\ left' = left
      BY <1>1, PatchBegins
    <3>2. copy = given
      BY <3>1 DEF GrowthInv
    <3>3. UNCHANGED given /\ UNCHANGED copy
      BY <3>1
    <3> QED
      BY <3>1, <3>2, <3>3
  <2>2. \A most \in Nat : (n - n) * most = 0
    OBVIOUS
  <2>3. \A value \in Supplied : Cardinality(DOMAIN value) \in Nat
    BY DocsContained, NodesIs DEF Nodes
  <2>4. Cardinality(DOMAIN given) \in Nat
    BY <1>0, NodesIs DEF Nodes
  <2> QED
    BY <1>0, <2>1, <2>2, <2>3, <2>4 DEF GrowthInv, GrowthBounded
<1>2. ASSUME NEW op \in Operations, Apply(op)
      PROVE  GrowthInv'
  <2>1. /\ phase = "patching" /\ left > 0 /\ ops' = ops /\ given' = given
        /\ \/ phase' = "failed"
           \/ phase' = "patching" /\ left' = left - 1 /\ copy' \in ApplyOne(copy, op)
    BY <1>2 DEF Apply
  <2>2. CASE phase' = "failed"
    BY <2>2 DEF GrowthInv, GrowthBounded
  <2>3. CASE phase' = "patching" /\ left' = left - 1 /\ copy' \in ApplyOne(copy, op)
    <3>1. PICK more \in Charges : Nodes(copy') <= Nodes(copy) + more
      BY <1>0, <2>3, ApplyOneKeeps
    <3>2. Contained(copy')
      BY <1>0, <2>3, ApplyOneKeeps
    <3>3. SUFFICES ASSUME NEW most \in {MaxCopyNodes} \cup {Cardinality(DOMAIN value) : value \in Supplied},
                          MaxCopyNodes <= most,
                          \A value \in Supplied : Cardinality(DOMAIN value) <= most
                   PROVE  Cardinality(DOMAIN copy')
                             <= Cardinality(DOMAIN given) + (ops - (left - 1)) * most
      BY <2>1, <2>3 DEF GrowthInv, GrowthBounded
    <3>4. \A value \in Supplied : Cardinality(DOMAIN value) \in Nat
      BY DocsContained, NodesIs DEF Nodes
    <3>5. most \in Nat
      BY <1>0, <3>3, <3>4
    <3>6. more \in Nat /\ more <= most
      BY <1>0, <3>1, <3>3, <3>4, <3>5 DEF Charges, Nodes
    <3>7. Nodes(copy) <= Nodes(given) + (ops - left) * most
      BY <2>1, <3>3 DEF GrowthInv, GrowthBounded, Nodes
    <3>8. Nodes(copy') \in Nat /\ Nodes(copy) \in Nat /\ Nodes(given) \in Nat
      BY <1>0, <3>2, NodesIs
    <3>9. PICK done \in Nat : done = ops - left /\ ops - (left - 1) = done + 1
      BY <1>0
    <3>10. done * most \in Nat /\ (done + 1) * most = done * most + most
      BY <3>5, <3>9
    <3>11. Nodes(copy') <= Nodes(given) + (done + 1) * most
      <4>1. PICK grown \in Nat : grown = done * most
        BY <3>10
      <4>2. Nodes(copy) <= Nodes(given) + grown /\ (done + 1) * most = grown + most
        BY <3>7, <3>9, <3>10, <4>1
      <4> QED
        BY <3>1, <3>5, <3>6, <3>8, <4>1, <4>2
    <3> QED
      BY <3>9, <3>11 DEF Nodes
  <2> QED
    BY <2>1, <2>2, <2>3
<1>3. ASSUME EndPatch
      PROVE  GrowthInv'
  BY <1>3 DEF EndPatch, Return, GrowthInv, GrowthBounded, patchVars
<1>4. ASSUME \/ \E supplied \in Supplied : BeginMerge(supplied)
             \/ \E place \in todo : MergeTurn(place)
             \/ EndMerge
      PROVE  GrowthInv'
  BY <1>4 DEF BeginMerge, MergeTurn, EndMerge, Return, GrowthInv, GrowthBounded
<1>5. ASSUME \/ \E segments \in Paths, value \in Supplied : BeginSet(segments, value)
             \/ StepToItem \/ StepToKey \/ WriteLast
      PROVE  GrowthInv'
  BY <1>5 DEF BeginSet, StepToItem, StepToKey, WriteLast, OnParent, GrowthInv, GrowthBounded
<1>6. ASSUME \/ BeginRewrite \/ PutText \/ EndRewrite
             \/ \E place \in todo : Visit(place) \/ TakeText(place)
      PROVE  GrowthInv'
  BY <1>6 DEF BeginRewrite, PutText, EndRewrite, Visit, TakeText, Return, GrowthInv, GrowthBounded
<1>7. ASSUME Swapping
      PROVE  GrowthInv'
  BY <1>7 DEF Swapping, SwapNext, SwapTurn, EndSwap, GrowthInv, GrowthBounded
<1>8. ASSUME UNCHANGED utilVars
      PROVE  GrowthInv'
  BY <1>8 DEF utilVars, patchVars, GrowthInv, GrowthBounded
<1> QED
  BY <1>1, <1>2, <1>3, <1>4, <1>5, <1>6, <1>7, <1>8 DEF UtilNext

\* However long the patch and however large the documents, an operation adds no more
\* than the largest value supplied or a copy within the limit.
THEOREM GrowthIsBounded == UtilSpec => []GrowthBounded
<1>1. UtilInit => UtilInv /\ RewriteInv /\ GrowthInv
  <2>1. UtilInit => GrowthInv
    BY DEF UtilInit, GrowthInv, GrowthBounded
  <2> QED
    BY <2>1, UtilInitially, RewriteInitially
<1>2. UtilInv /\ RewriteInv /\ GrowthInv /\ [UtilNext]_utilVars => UtilInv' /\ RewriteInv' /\ GrowthInv'
  BY UtilKept, RewriteKept, GrowthKept
<1>3. GrowthInv => GrowthBounded
  BY DEF GrowthInv
<1> QED
  BY <1>1, <1>2, <1>3, PTL DEF UtilSpec

-----------------------------------------------------------------------------
(* What a merge patch leaves at every place.                               *)

LEMMA SaidIs ==
  ASSUME NEW d, NEW place
  PROVE  Said(d, place) = IF place \in DOMAIN d THEN {d[place]} ELSE {}
BY DEF Said

LEMMA PutElsewhere ==
  ASSUME NEW d, NEW v, NEW place \in Seq(Steps), NEW t \in Seq(Steps), ~IsPrefix(place, t),
         DOMAIN d \subseteq Seq(Steps), DOMAIN v \subseteq Seq(Steps)
  PROVE  Said(Put(d, place, v), t) = Said(d, t)
<1>1. \A q \in DOMAIN v : t # place \o q
  BY Joined
<1> DEFINE r == Put(d, place, v)
<1>2. /\ \A p \in DOMAIN d : ~IsPrefix(place, p) => p \in DOMAIN r /\ r[p] = d[p]
      /\ \A q \in DOMAIN v : place \o q \in DOMAIN r /\ r[place \o q] = v[q]
  BY PutIs
<1>0. DOMAIN r = (DOMAIN d \ Under(d, place)) \cup {place \o q : q \in DOMAIN v}
  BY DEF Put
<1> HIDE DEF r
<1>4. /\ t \in DOMAIN r <=> t \in DOMAIN d
      /\ t \in DOMAIN d => r[t] = d[t]
  BY <1>0, <1>1, <1>2 DEF Under
<1>5. Said(r, t) = Said(d, t)
  BY <1>4, SaidIs
<1> QED
  BY <1>5 DEF r

LEMMA PutUnder ==
  ASSUME NEW d, NEW v, NEW place \in Seq(Steps), NEW t \in Seq(Steps),
         DOMAIN d \subseteq Seq(Steps), DOMAIN v \subseteq Seq(Steps)
  PROVE  Said(Put(d, place, v), place \o t) = Said(v, t)
<1> DEFINE r == Put(d, place, v)
           s == place \o t
<1>2. /\ \A p \in DOMAIN d : ~IsPrefix(place, p) => p \in DOMAIN r /\ r[p] = d[p]
      /\ \A q \in DOMAIN v : place \o q \in DOMAIN r /\ r[place \o q] = v[q]
  BY PutIs
<1>0. DOMAIN r = (DOMAIN d \ Under(d, place)) \cup {place \o q : q \in DOMAIN v}
  BY DEF Put
<1> HIDE DEF r
<1>3. IsPrefix(place, s)
  BY Joined
<1>4. ASSUME NEW q \in DOMAIN v, s = place \o q
      PROVE  q = t
  <2>1. /\ SubSeq(place \o q, Len(place) + 1, Len(place \o q)) = q
        /\ SubSeq(place \o t, Len(place) + 1, Len(place \o t)) = t
    BY Joined
  <2> QED
    BY <1>4, <2>1
<1>5. s \in DOMAIN r => t \in DOMAIN v
  BY <1>0, <1>3, <1>4 DEF Under
<1>6. t \in DOMAIN v => s \in DOMAIN r /\ r[s] = v[t]
  BY <1>2
<1> HIDE DEF s
<1>7. Said(r, s) = Said(v, t)
  BY <1>5, <1>6, SaidIs
<1> QED
  BY <1>7 DEF r, s

LEMMA UpTo ==
  ASSUME NEW a \in Nat
  PROVE  /\ \A n \in 0 .. a : n = a \/ n \in 0 .. a - 1
         /\ \A b \in Nat : \A n \in 0 .. b : n \in 0 .. a - 1 \/ n = a \/ n \in a + 1 .. b
OBVIOUS

\* What the patch's value at a place, put there, says.
LEMMA PartPutSaid ==
  ASSUME NEW d, NEW e, NEW place \in Seq(Steps), NEW p \in Seq(Steps), IsPrefix(place, p),
         DOMAIN d \subseteq Seq(Steps), DOMAIN e \subseteq Seq(Steps)
  PROVE  Said(Put(d, place, Part(e, place)), p) = Said(e, p)
<1> DEFINE q == SubSeq(p, Len(place) + 1, Len(p))
           v == Part(e, place)
<1>1. q \in Seq(Steps) /\ p = place \o q
  BY Split
<1>2. /\ \A s : s \in DOMAIN v <=> s \in Seq(Steps) /\ place \o s \in DOMAIN e
      /\ \A s \in DOMAIN v : v[s] = e[place \o s]
  BY PartIs
<1> HIDE DEF q, v
<1>3. Said(v, q) = Said(e, p)
  BY <1>1, <1>2, SaidIs
<1>4. DOMAIN v \subseteq Seq(Steps)
  BY <1>2
<1>5. Said(Put(d, place, v), p) = Said(v, q)
  BY <1>1, <1>4, PutUnder
<1> QED
  BY <1>3, <1>5 DEF v

LEMMA ObjectPutSaid ==
  ASSUME NEW d, NEW place \in Seq(Steps), NEW p \in Seq(Steps), IsPrefix(place, p),
         DOMAIN d \subseteq Seq(Steps)
  PROVE  Said(Put(d, place, Single(Object)), p) = IF p = place THEN {Object} ELSE {}
<1> DEFINE q == SubSeq(p, Len(place) + 1, Len(p))
           v == Single(Object)
<1>1. q \in Seq(Steps) /\ p = place \o q
  BY Split
<1>2. DOMAIN v = {<<>>} /\ v[<<>>] = Object
  BY DEF Single
<1> HIDE DEF q, v
<1>3. place \o <<>> = place /\ <<>> \in Seq(Steps)
  BY ConcatEmptySeq
<1>4. q = <<>> <=> p = place
  <2>1. Len(p) = Len(place) + Len(q) /\ Len(q) \in Nat /\ Len(place) \in Nat
    BY <1>1, Joined
  <2>2. q # <<>> => Len(q) # 0
    BY <1>1, EmptySeq
  <2> QED
    BY <1>1, <1>3, <2>1, <2>2
<1>6. DOMAIN v \subseteq Seq(Steps)
  BY <1>2, <1>3
<1>5. Said(Put(d, place, v), p) = Said(v, q)
  BY <1>1, <1>6, PutUnder
<1> QED
  BY <1>2, <1>4, <1>5, SaidIs DEF v

LEMMA CutCut ==
  ASSUME NEW p \in Seq(Steps), NEW m \in 0 .. Len(p), NEW n \in 0 .. m
  PROVE  SubSeq(SubSeq(p, 1, m), 1, n) = SubSeq(p, 1, n)
<1>1. /\ SubSeq(p, 1, m) \in Seq(Steps) /\ Len(SubSeq(p, 1, m)) = m
      /\ \A i \in 1 .. m : SubSeq(p, 1, m)[i] = p[i]
  BY CutIs
<1> DEFINE c == SubSeq(p, 1, m)
<1> HIDE DEF c
<1>2. /\ SubSeq(c, 1, n) \in Seq(Steps) /\ Len(SubSeq(c, 1, n)) = n
      /\ \A i \in 1 .. n : SubSeq(c, 1, n)[i] = c[i]
  <2>1. c \in Seq(Steps) /\ n \in 0 .. Len(c)
    BY <1>1 DEF c
  <2> QED
    BY <2>1, CutIs
<1>3. n \in 0 .. Len(p)
  OBVIOUS
<1>4. /\ SubSeq(p, 1, n) \in Seq(Steps) /\ Len(SubSeq(p, 1, n)) = n
      /\ \A i \in 1 .. n : SubSeq(p, 1, n)[i] = p[i]
  BY <1>3, CutIs
<1>5. \A i \in 1 .. n : SubSeq(c, 1, n)[i] = SubSeq(p, 1, n)[i]
  BY <1>1, <1>2, <1>4 DEF c
<1> DEFINE s == SubSeq(c, 1, n)
           t == SubSeq(p, 1, n)
<1>6. /\ s \in Seq(Steps) /\ t \in Seq(Steps) /\ Len(s) = Len(t)
      /\ \A i \in 1 .. Len(s) : s[i] = t[i]
  BY <1>2, <1>4, <1>5
<1> HIDE DEF s, t
<1>7. s = t
  BY <1>6, SeqEqual
<1> QED
  BY <1>7 DEF s, t, c

\* Something in a place had to become an object.
Turned(place, m) == \E n \in 0 .. m - 1 : Turns(SubSeq(place, 1, n))

\* What MergedAsSaid asks of a document.
Meets(d, place) ==
  /\ \A n \in 0 .. Len(place) : Decides(SubSeq(place, 1, n)) =>
        Said(d, place) = IF n > 0 /\ patch[SubSeq(place, 1, n)] = Null THEN {} ELSE Said(patch, place)
  /\ (\A n \in 0 .. Len(place) : ~Decides(SubSeq(place, 1, n))) =>
        IF place \in DOMAIN patch THEN Said(d, place) = {Object}
        ELSE Said(d, place) = IF Turned(place, Len(place)) THEN {} ELSE Said(given, place)

\* A place that the recursion is yet to come to or below is as it was given, unless
\* something above it became an object.
Untouched(d, q, place) ==
  Said(d, place) = IF Turned(place, Len(q)) THEN {} ELSE Said(given, place)

MergeSoFar(d, places) ==
  /\ \A q \in places : ByObjects(q)
  /\ \A p \in Seq(Steps) :
        /\ (\A q \in places : ~IsPrefix(q, p)) => Meets(d, p)
        /\ \A q \in places : IsPrefix(q, p) => Untouched(d, q, p)

MergeInv ==
  /\ phase = "holding" => copy = given
  /\ phase = "merging" => MergeSoFar(copy, todo)
  /\ MergeMeetsRfc

\* The patch above a place that the recursion came to.
LEMMA AboveReached ==
  ASSUME NEW q \in DOMAIN patch, q \in Seq(Steps), ByObjects(q), NEW p \in Seq(Steps), IsPrefix(q, p)
  PROVE  /\ SubSeq(p, 1, Len(q)) = q /\ Len(q) \in 0 .. Len(p)
         /\ \A n \in 0 .. Len(q) - 1 : patch[SubSeq(p, 1, n)] = Object /\ ~Decides(SubSeq(p, 1, n))
<1>1. SubSeq(p, 1, Len(q)) = q /\ Len(q) \in 0 .. Len(p)
  BY PrefixSame
<1>2. ASSUME NEW n \in 0 .. Len(q) - 1
      PROVE  patch[SubSeq(p, 1, n)] = Object
  <2>1. n \in 0 .. Len(q) /\ Len(q) \in 0 .. Len(p)
    BY <1>1
  <2>2. SubSeq(q, 1, n) = SubSeq(p, 1, n)
    BY <1>1, <2>1, CutCut
  <2> QED
    BY <2>2 DEF ByObjects
<1> QED
  BY <1>1, <1>2 DEF Decides

\* A step where the patch has an object.
LEMMA ObjectMerged ==
  ASSUME UtilContained, Merging, todo \subseteq DOMAIN patch, MergeSoFar(copy, todo),
         NEW place \in todo, patch[place] = Object,
         NEW after, after = AsObject(copy, place),
         NEW rest, rest = (todo \ {place}) \cup Children(patch, place)
  PROVE  MergeSoFar(after, rest)
<1>1. /\ DOMAIN copy \subseteq Seq(Steps) /\ DOMAIN patch \subseteq Seq(Steps)
      /\ DOMAIN given \subseteq Seq(Steps) /\ Tree(patch) /\ Tree(given)
      /\ place \in Seq(Steps) /\ place \in DOMAIN patch /\ todo \subseteq Seq(Steps)
      /\ ByObjects(place)
  BY TreeIs DEF UtilContained, Contained, MergeSoFar
<1>2. ASSUME NEW c \in Children(patch, place)
      PROVE  /\ c \in DOMAIN patch /\ c \in Seq(Steps) /\ Len(c) = Len(place) + 1
             /\ IsPrefix(place, c) /\ ByObjects(c)
  <2>1. c \in DOMAIN patch /\ c \in Seq(Steps) /\ c # <<>> /\ Front(c) = place
    BY <1>1, <1>2 DEF Children
  <2>2. Len(c) = Len(place) + 1 /\ IsPrefix(place, c)
    BY <2>1, FrontIs, PrefixFront
  <2>3. SubSeq(c, 1, Len(place)) = place
        /\ \A n \in 0 .. Len(place) - 1 : patch[SubSeq(c, 1, n)] = Object
    BY <1>1, <2>1, <2>2, AboveReached
  <2>4. ByObjects(c)
    <3>1. Len(place) \in Nat
      BY <1>1
    <3>2. \A n \in 0 .. Len(c) - 1 : n = Len(place) \/ n \in 0 .. Len(place) - 1
      BY <2>2, <3>1
    <3> QED
      BY <2>3, <3>2 DEF ByObjects
  <2> QED
    BY <2>1, <2>2, <2>4
<1>3. ASSUME NEW p \in Seq(Steps), ~IsPrefix(place, p)
      PROVE  Said(after, p) = Said(copy, p)
  <2>1. after = copy \/ after = Put(copy, place, Single(Object))
    BY DEF AsObject
  <2>2. DOMAIN Single(Object) \subseteq Seq(Steps)
    BY DEF Single
  <2> QED
    BY <1>1, <1>3, <2>1, <2>2, PutElsewhere
\* What stands under the place is as it was, or gone if the place was no object.
<1>4. ASSUME NEW p \in Seq(Steps), IsPrefix(place, p), p # place
      PROVE  Said(after, p) = IF Turned(p, Len(place) + 1) THEN {} ELSE Said(given, p)
  <2>1. /\ SubSeq(p, 1, Len(place)) = place /\ Len(place) \in 0 .. Len(p)
        /\ SubSeq(place, 1, Len(place)) = place
    BY <1>1, <1>4, AboveReached, PrefixSame, PrefixOrder
  <2>2. Turned(p, Len(place) + 1) <=> Turned(p, Len(place)) \/ Turns(place)
    <3>1. \A n : n \in 0 .. (Len(place) + 1) - 1 <=> n \in 0 .. Len(place) - 1 \/ n = Len(place)
      BY <2>1
    <3> QED
      BY <2>1, <3>1 DEF Turned
  <2>3. Turned(p, Len(place)) <=> Turned(place, Len(place))
    <3>1. ASSUME NEW n \in 0 .. Len(place) - 1
          PROVE  SubSeq(place, 1, n) = SubSeq(p, 1, n)
      <4>1. n \in 0 .. Len(place)
        OBVIOUS
      <4> QED
        BY <2>1, <4>1, CutCut
    <3> QED
      BY <3>1 DEF Turned
  <2>4. /\ Said(copy, place) = IF Turned(place, Len(place)) THEN {} ELSE Said(given, place)
        /\ Said(copy, p) = IF Turned(p, Len(place)) THEN {} ELSE Said(given, p)
    <3>1. IsPrefix(place, place)
      BY <1>1, PrefixOrder
    <3> QED
      BY <1>1, <1>4, <3>1 DEF MergeSoFar, Untouched
  <2>5. CASE place \in DOMAIN copy /\ copy[place] = Object
    <3>1. after = copy
      BY <2>5 DEF AsObject
    <3>2. Said(copy, place) = {Object}
      BY <2>5, SaidIs
    <3>3. ~Turned(place, Len(place)) /\ Said(given, place) = {Object}
      BY <2>4, <3>2
    <3>4. ~Turns(place)
      BY <3>3, SaidIs DEF Turns
    <3> QED
      BY <2>2, <2>3, <2>4, <3>1, <3>3, <3>4
  <2>6. CASE ~(place \in DOMAIN copy /\ copy[place] = Object)
    <3>1. after = Put(copy, place, Single(Object))
      BY <2>6 DEF AsObject
    <3>2. Said(after, p) = {}
      BY <1>1, <1>4, <3>1, ObjectPutSaid
    <3>3. Said(copy, place) # {Object}
      BY <2>6, SaidIs
    <3>4. CASE Turned(place, Len(place))
      BY <2>2, <2>3, <3>2, <3>4
    <3>5. CASE ~Turned(place, Len(place)) /\ place \in DOMAIN given
      <4>1. given[place] # Object
        BY <2>4, <3>3, <3>5, SaidIs
      <4>2. Turns(place)
        BY <1>1, <3>5, <4>1 DEF Turns
      <4> QED
        BY <2>2, <3>2, <4>2
    <3>6. CASE place \notin DOMAIN given
      <4>1. p \notin DOMAIN given
        BY <1>1, <1>4, <3>6, TreeBetween
      <4> QED
        BY <3>2, <4>1, SaidIs
    <3> QED
      BY <3>4, <3>5, <3>6
  <2> QED
    BY <2>5, <2>6
<1>5. ASSUME NEW p \in Seq(Steps), \A q \in rest : ~IsPrefix(q, p)
      PROVE  Meets(after, p)
  <2>1. CASE ~IsPrefix(place, p)
    <3>1. Meets(copy, p)
      BY <1>5, <2>1 DEF MergeSoFar
    <3> QED
      BY <1>3, <2>1, <3>1 DEF Meets
  <2>2. CASE p = place
    <3>1. /\ SubSeq(p, 1, Len(place)) = place /\ Len(place) \in Nat
          /\ \A n \in 0 .. Len(place) - 1 : ~Decides(SubSeq(p, 1, n))
      BY <1>1, <2>2, AboveReached, PrefixOrder
    <3>2. \A n \in 0 .. Len(p) : ~Decides(SubSeq(p, 1, n))
      <4>1. \A n \in 0 .. Len(p) : n = Len(place) \/ n \in 0 .. Len(place) - 1
        BY <2>2, <3>1, UpTo
      <4>2. ~Decides(place)
        BY DEF Decides
      <4> QED
        BY <3>1, <4>1, <4>2
    <3>3. Said(after, p) = {Object}
      <4>1. CASE place \in DOMAIN copy /\ copy[place] = Object
        BY <2>2, <4>1, SaidIs DEF AsObject
      <4>2. CASE ~(place \in DOMAIN copy /\ copy[place] = Object)
        <5>1. after = Put(copy, place, Single(Object)) /\ IsPrefix(place, place)
          BY <1>1, <4>2, PrefixOrder DEF AsObject
        <5> QED
          BY <1>1, <2>2, <5>1, ObjectPutSaid
      <4> QED
        BY <4>1, <4>2
    <3> QED
      BY <1>1, <2>2, <3>2, <3>3 DEF Meets
  <2>3. CASE IsPrefix(place, p) /\ p # place
    <3>1. /\ SubSeq(p, 1, Len(place)) = place /\ Len(place) \in 0 .. Len(p)
          /\ \A n \in 0 .. Len(place) - 1 : ~Decides(SubSeq(p, 1, n))
      BY <1>1, <2>3, AboveReached
    <3>2. Len(place) < Len(p)
      <4>1. Len(place) = Len(p) => place = p
        BY <1>1, <2>3, PrefixOrder
      <4> QED
        BY <2>3, <3>1, <4>1
    \* The patch has nothing on the way below the place.
    <3>3. ASSUME NEW n \in Len(place) + 1 .. Len(p)
          PROVE  SubSeq(p, 1, n) \notin DOMAIN patch
      <4> DEFINE s == SubSeq(p, 1, n)
      <4>1. n \in 0 .. Len(p) /\ Len(place) \in 0 .. n
        BY <3>1
      <4>2. s \in Seq(Steps) /\ Len(s) = n /\ IsPrefix(s, p)
        BY <4>1, CutIs, PrefixCut
      <4> HIDE DEF s
      <4>3. IsPrefix(place, s) /\ place # s
        BY <1>1, <2>3, <3>1, <4>1, <4>2, PrefixOrder
      <4>4. ASSUME s \in DOMAIN patch
            PROVE  FALSE
        <5>1. /\ Append(place, s[Len(place) + 1]) \in Children(patch, place)
              /\ IsPrefix(Append(place, s[Len(place) + 1]), s)
          BY <1>1, <4>3, <4>4, TreeBetween
        <5> DEFINE c == Append(place, s[Len(place) + 1])
        <5>2. c \in rest /\ c \in Seq(Steps) /\ IsPrefix(c, s)
          BY <1>2, <5>1
        <5> HIDE DEF c
        <5>3. IsPrefix(c, p)
          BY <4>2, <5>2, PrefixOrder
        <5> QED
          BY <1>5, <5>2, <5>3
      <4> QED
        BY <4>4 DEF s
    <3>4. \A n \in 0 .. Len(p) :
             \/ n \in 0 .. Len(place) - 1 \/ n = Len(place) \/ n \in Len(place) + 1 .. Len(p)
      <4>1. Len(place) \in Nat /\ Len(p) \in Nat
        BY <3>1
      <4> QED
        BY <4>1, UpTo
    <3>5. \A n \in 0 .. Len(p) : ~Decides(SubSeq(p, 1, n))
      <4>1. ~Decides(place)
        BY DEF Decides
      <4> QED
        BY <3>1, <3>3, <3>4, <4>1 DEF Decides
    <3>6. p \notin DOMAIN patch
      <4>1. SubSeq(p, 1, Len(p)) = p /\ Len(p) \in Len(place) + 1 .. Len(p)
        BY <3>1, <3>2
      <4> QED
        BY <3>3, <4>1
    <3>7. Turned(p, Len(p)) <=> Turned(p, Len(place) + 1)
      <4>1. \A n \in 0 .. (Len(place) + 1) - 1 : n \in 0 .. Len(p) - 1
        BY <3>1, <3>2
      <4>2. ASSUME NEW n \in 0 .. Len(p) - 1, Turns(SubSeq(p, 1, n))
            PROVE  n \in 0 .. (Len(place) + 1) - 1
        <5>1. n \notin Len(place) + 1 .. Len(p)
          BY <3>3, <4>2 DEF Turns
        <5> QED
          BY <3>1, <5>1
      <4> QED
        BY <4>1, <4>2 DEF Turned
    <3> QED
      BY <1>4, <2>3, <3>5, <3>6, <3>7 DEF Meets
  <2> QED
    BY <2>1, <2>2, <2>3
<1>6. ASSUME NEW p \in Seq(Steps), NEW q \in rest, IsPrefix(q, p)
      PROVE  Untouched(after, q, p)
  <2>1. CASE q \in Children(patch, place)
    <3>1. q \in Seq(Steps) /\ Len(q) = Len(place) + 1 /\ IsPrefix(place, q)
      BY <1>2, <2>1
    <3>2. IsPrefix(place, p) /\ p # place
      <4>1. IsPrefix(place, p) /\ Len(q) <= Len(p)
        BY <1>1, <1>6, <3>1, PrefixOrder, PrefixIs
      <4> QED
        BY <1>1, <3>1, <4>1
    <3> QED
      BY <1>4, <3>1, <3>2 DEF Untouched
  <2>2. CASE q \in todo \ {place}
    <3>1. ~IsPrefix(place, p)
      <4>1. q \in Seq(Steps) /\ Len(q) \in Nat /\ Len(place) \in Nat
        BY <1>1, <2>2
      <4>2. IsPrefix(place, p) => IsPrefix(place, q) \/ IsPrefix(q, place)
        BY <1>1, <1>6, <4>1, PrefixOrder
      <4> QED
        BY <2>2, <4>2 DEF Merging, Apart
    <3>2. Untouched(copy, q, p)
      BY <1>6, <2>2 DEF MergeSoFar
    <3> QED
      BY <1>3, <3>1, <3>2 DEF Untouched
  <2> QED
    BY <1>6, <2>1, <2>2
<1>7. \A q \in rest : ByObjects(q)
  BY <1>2 DEF MergeSoFar
<1> QED
  BY <1>5, <1>6, <1>7 DEF MergeSoFar

-----------------------------------------------------------------------------

\* A step where the patch decides.
LEMMA LeafMerged ==
  ASSUME UtilContained, Merging, todo \subseteq DOMAIN patch, MergeSoFar(copy, todo),
         NEW place \in todo, patch[place] # Object,
         NEW after, after = IF patch[place] = Null /\ place # <<>> THEN Without(copy, place)
                            ELSE Put(copy, place, Part(patch, place)),
         NEW rest, rest = todo \ {place}
  PROVE  MergeSoFar(after, rest)
<1>1. /\ DOMAIN copy \subseteq Seq(Steps) /\ DOMAIN patch \subseteq Seq(Steps)
      /\ place \in Seq(Steps) /\ place \in DOMAIN patch /\ todo \subseteq Seq(Steps)
      /\ ByObjects(place)
  BY TreeIs DEF UtilContained, Contained, MergeSoFar
<1> DEFINE gone == patch[place] = Null /\ place # <<>>
<1>2. \A p : p \in DOMAIN Part(patch, place) => p \in Seq(Steps)
  BY <1>1, PartIs
<1>3. ASSUME NEW p \in Seq(Steps), ~IsPrefix(place, p)
      PROVE  Said(after, p) = Said(copy, p)
  <2>1. CASE gone
    <3>1. after = Without(copy, place)
      BY <2>1
    <3>2. /\ p \in DOMAIN after <=> p \in DOMAIN copy
          /\ p \in DOMAIN copy => after[p] = copy[p]
      BY <1>3, <3>1 DEF Without, Under
    <3> QED
      BY <3>2, SaidIs
  <2>2. CASE ~gone
    <3>1. after = Put(copy, place, Part(patch, place)) /\ DOMAIN Part(patch, place) \subseteq Seq(Steps)
      BY <1>2, <2>2
    <3> QED
      BY <1>1, <1>3, <3>1, PutElsewhere
  <2> QED
    BY <2>1, <2>2
<1>4. ASSUME NEW p \in Seq(Steps), IsPrefix(place, p)
      PROVE  Said(after, p) = IF gone THEN {} ELSE Said(patch, p)
  <2>1. CASE gone
    <3>1. after = Without(copy, place)
      BY <2>1
    <3>2. p \notin DOMAIN after
      BY <1>4, <3>1 DEF Without, Under
    <3> QED
      BY <2>1, <3>2, SaidIs
  <2>2. CASE ~gone
    <3>1. after = Put(copy, place, Part(patch, place))
      BY <2>2
    <3> QED
      BY <1>1, <1>4, <2>2, <3>1, PartPutSaid
  <2> QED
    BY <2>1, <2>2
<1>5. ASSUME NEW p \in Seq(Steps), \A q \in rest : ~IsPrefix(q, p)
      PROVE  Meets(after, p)
  <2>1. CASE ~IsPrefix(place, p)
    <3>1. Meets(copy, p)
      BY <1>5, <2>1 DEF MergeSoFar
    <3> QED
      BY <1>3, <2>1, <3>1 DEF Meets
  <2>2. CASE IsPrefix(place, p)
    <3>1. /\ SubSeq(p, 1, Len(place)) = place /\ Len(place) \in 0 .. Len(p)
          /\ \A n \in 0 .. Len(place) - 1 : ~Decides(SubSeq(p, 1, n))
      BY <1>1, <2>2, AboveReached
    <3>2. Decides(place)
      BY <1>1 DEF Decides
    <3>3. ASSUME NEW n \in Len(place) + 1 .. Len(p)
          PROVE  ~Decides(SubSeq(p, 1, n))
      <4> DEFINE s == SubSeq(p, 1, n)
      <4>1. n \in 0 .. Len(p) /\ Len(place) \in 0 .. n /\ Len(place) \in 0 .. n - 1
        BY <3>1
      <4>2. Len(s) = n /\ SubSeq(s, 1, Len(place)) = place
        BY <3>1, <4>1, CutIs, CutCut
      <4> HIDE DEF s
      <4>3. ~ByObjects(s)
        BY <4>1, <4>2 DEF ByObjects
      <4> QED
        BY <4>3 DEF Decides, s
    <3>4. \A n \in 0 .. Len(p) :
             \/ n \in 0 .. Len(place) - 1 \/ n = Len(place) \/ n \in Len(place) + 1 .. Len(p)
      <4>1. Len(place) \in Nat /\ Len(p) \in Nat
        BY <3>1
      <4> QED
        BY <4>1, UpTo
    <3>5. \A n \in 0 .. Len(p) : Decides(SubSeq(p, 1, n)) <=> n = Len(place)
      BY <3>1, <3>2, <3>3, <3>4
    <3>6. Len(place) > 0 <=> place # <<>>
      BY <1>1, EmptySeq
    <3>7. \A n \in 0 .. Len(p) : Decides(SubSeq(p, 1, n)) =>
            Said(after, p) = IF n > 0 /\ patch[SubSeq(p, 1, n)] = Null THEN {} ELSE Said(patch, p)
      <4>1. Said(after, p) = IF Len(place) > 0 /\ patch[place] = Null THEN {} ELSE Said(patch, p)
        BY <1>4, <2>2, <3>6
      <4> QED
        BY <3>1, <3>5, <4>1
    <3>8. ~(\A n \in 0 .. Len(p) : ~Decides(SubSeq(p, 1, n)))
      BY <3>1, <3>2
    <3> QED
      BY <3>7, <3>8 DEF Meets
  <2> QED
    BY <2>1, <2>2
<1>6. ASSUME NEW p \in Seq(Steps), NEW q \in rest, IsPrefix(q, p)
      PROVE  Untouched(after, q, p)
  <2>1. ~IsPrefix(place, p)
    <3>1. q \in Seq(Steps) /\ Len(q) \in Nat /\ Len(place) \in Nat
      BY <1>1
    <3>2. IsPrefix(place, p) => IsPrefix(place, q) \/ IsPrefix(q, place)
      BY <1>1, <1>6, <3>1, PrefixOrder
    <3> QED
      BY <3>2 DEF Merging, Apart
  <2>2. Untouched(copy, q, p)
    BY <1>6 DEF MergeSoFar
  <2> QED
    BY <1>3, <2>1, <2>2 DEF Untouched
<1>7. \A q \in rest : ByObjects(q)
  BY DEF MergeSoFar
<1> QED
  BY <1>5, <1>6, <1>7 DEF MergeSoFar

\* The same said of the next state.
LEMMA MergeStays ==
  ASSUME UNCHANGED <<given, patch>>, MergeSoFar(copy', todo')
  PROVE  MergeSoFar(copy, todo)'
BY DEF MergeSoFar, Meets, Untouched, Turned, Turns, Decides, ByObjects

LEMMA MergeBegins ==
  ASSUME UtilInv, MergeInv, NEW supplied \in Supplied, BeginMerge(supplied)
  PROVE  MergeSoFar(copy, todo)'
<1>1. copy' = given' /\ todo' = {<<>>}
  BY DEF MergeInv, BeginMerge
<1>2. \A q : ~(q \in 0 .. 0 - 1)
  OBVIOUS
<1>3. Len(<<>>) = 0
  OBVIOUS
<1>4. \A q \in todo' : ByObjects(q)'
  BY <1>1, <1>2, <1>3 DEF ByObjects
<1>5. \A p \in Seq(Steps) : IsPrefix(<<>>, p)
  BY PrefixOrder
<1>6. \A p \in Seq(Steps) : Untouched(copy, <<>>, p)'
  BY <1>1, <1>2, <1>3 DEF Untouched, Turned
<1> QED
  BY <1>1, <1>4, <1>5, <1>6 DEF MergeSoFar

\* Once the recursion has come to every place, the result is what it should be.
LEMMA MergeEnds ==
  ASSUME UtilInv, MergeInv, EndMerge
  PROVE  MergeMeetsRfc'
<1>1. /\ phase = "merging" /\ todo = {} /\ doc' = copy
      /\ UNCHANGED <<given, patch>> /\ MergeSoFar(copy, todo) /\ UtilContained
  BY DEF MergeInv, EndMerge, Return, UtilInv
<1>2. \A p \in Seq(Steps) : Meets(copy, p)
  BY <1>1 DEF MergeSoFar
<1>3. /\ DOMAIN given \subseteq Seq(Steps) /\ DOMAIN patch \subseteq Seq(Steps)
      /\ DOMAIN copy \subseteq Seq(Steps)
  BY <1>1, TreeIs DEF UtilContained, Contained
<1>4. ASSUME NEW p \in Seq(Steps)
      PROVE  MergedAsSaid(p)'
  <2>1. Meets(doc', p)
    BY <1>1, <1>2
  <2>2. /\ \A q : Decides(q)' <=> Decides(q)
        /\ \A q : Turns(q)' <=> Turns(q)
    BY <1>1 DEF Decides, Turns, ByObjects
  <2>3. /\ Said(doc, p)' = Said(doc', p) /\ Said(given, p)' = Said(given, p)
        /\ Said(patch, p)' = Said(patch, p)
    BY <1>1 DEF Said
  <2> DEFINE deciding == {n \in 0 .. Len(p) : Decides(SubSeq(p, 1, n))}
  <2>4. deciding # {} =>
          Said(doc', p) = IF \E n \in deciding : n > 0 /\ patch[SubSeq(p, 1, n)] = Null THEN {}
                          ELSE Said(patch, p)
    BY <2>1 DEF Meets
  <2>5. deciding = {} =>
           IF p \in DOMAIN patch THEN Said(doc', p) = {Object}
           ELSE Said(doc', p) = IF Turned(p, Len(p)) THEN {} ELSE Said(given, p)
    BY <2>1 DEF Meets
  <2> QED
    BY <1>1, <2>2, <2>3, <2>4, <2>5 DEF MergedAsSaid, Turned
<1> QED
  BY <1>1, <1>3, <1>4 DEF MergeMeetsRfc

LEMMA MergeKept == UtilInv /\ MergeInv /\ [UtilNext]_utilVars => MergeInv'
<1> SUFFICES ASSUME UtilInv, MergeInv, [UtilNext]_utilVars
             PROVE  MergeInv'
  OBVIOUS
<1>1. ASSUME NEW n \in 0 .. MaxPatchOps + 1, NEW list \in BOOLEAN, BeginPatch(n, list)
      PROVE  MergeInv'
  <2>1. phase' \notin {"holding", "merging", "merged"}
    BY <1>1, PatchBegins
  <2> QED
    BY <2>1 DEF MergeInv, MergeMeetsRfc
<1>2. ASSUME \/ \E op \in Operations : Apply(op)
             \/ EndPatch \/ EndRewrite \/ BeginRewrite \/ PutText \/ Swapping
             \/ \E segments \in Paths, value \in Supplied : BeginSet(segments, value)
             \/ StepToItem \/ StepToKey \/ WriteLast
             \/ \E place \in todo : Visit(place) \/ TakeText(place)
      PROVE  MergeInv'
  <2>1. phase' \notin {"holding", "merging", "merged"}
    BY <1>2 DEF Apply, EndPatch, EndRewrite, Return, BeginRewrite, PutText, Swapping, SwapNext, SwapTurn,
                EndSwap, BeginSet, StepToItem, StepToKey, OnParent, WriteLast, Visit, TakeText
  <2> QED
    BY <2>1 DEF MergeInv, MergeMeetsRfc
<1>3. ASSUME NEW supplied \in Supplied, BeginMerge(supplied)
      PROVE  MergeInv'
  <2>1. MergeSoFar(copy, todo)'
    BY <1>3, MergeBegins
  <2>2. phase' = "merging"
    BY <1>3 DEF BeginMerge
  <2> QED
    BY <2>1, <2>2 DEF MergeInv, MergeMeetsRfc
<1>4. ASSUME NEW place \in todo, MergeTurn(place)
      PROVE  MergeInv'
  <2>1. /\ phase = "merging" /\ phase' = "merging" /\ UNCHANGED <<given, patch>>
    BY <1>4 DEF MergeTurn
  <2>2. UtilContained /\ Merging /\ todo \subseteq DOMAIN patch /\ MergeSoFar(copy, todo)
    BY <2>1 DEF UtilInv, MergeInv
  <2>3. CASE patch[place] = Object
    <3>1. copy' = AsObject(copy, place) /\ todo' = (todo \ {place}) \cup Children(patch, place)
      BY <1>4, <2>3 DEF MergeTurn
    <3>2. MergeSoFar(copy', todo')
      BY <2>2, <2>3, <3>1, ObjectMerged
    <3> QED
      BY <2>1, <3>2, MergeStays DEF MergeInv, MergeMeetsRfc
  <2>4. CASE patch[place] # Object
    <3>1. /\ copy' = IF patch[place] = Null /\ place # <<>> THEN Without(copy, place)
                     ELSE Put(copy, place, Part(patch, place))
          /\ todo' = todo \ {place}
      BY <1>4, <2>4 DEF MergeTurn
    <3>2. MergeSoFar(copy', todo')
      BY <2>2, <2>4, <3>1, LeafMerged
    <3> QED
      BY <2>1, <3>2, MergeStays DEF MergeInv, MergeMeetsRfc
  <2> QED
    BY <2>3, <2>4
<1>5. ASSUME EndMerge
      PROVE  MergeInv'
  <2>1. MergeMeetsRfc'
    BY <1>5, MergeEnds
  <2>2. phase' = "merged"
    BY <1>5 DEF EndMerge, Return
  <2> QED
    BY <2>1, <2>2 DEF MergeInv
<1>6. ASSUME UNCHANGED utilVars
      PROVE  MergeInv'
  <2>1. UNCHANGED <<phase, doc, given, patch, copy, todo>>
    BY <1>6 DEF utilVars
  <2>2. phase = "merging" => MergeSoFar(copy, todo)'
    BY <2>1, MergeStays DEF MergeInv
  <2>3. MergeMeetsRfc'
    <3>1. /\ \A q : Decides(q)' <=> Decides(q)
          /\ \A q : Turns(q)' <=> Turns(q)
      BY <2>1 DEF Decides, Turns, ByObjects
    <3>2. ASSUME NEW p
          PROVE  MergedAsSaid(p)' <=> MergedAsSaid(p)
      <4>1. /\ Said(doc, p)' = Said(doc, p) /\ Said(given, p)' = Said(given, p)
            /\ Said(patch, p)' = Said(patch, p)
        BY <2>1 DEF Said
      <4>2. {n \in 0 .. Len(p) : Decides(SubSeq(p, 1, n))}'
              = {n \in 0 .. Len(p) : Decides(SubSeq(p, 1, n))}
        BY <3>1
      <4> QED
        BY <2>1, <3>1, <4>1, <4>2 DEF MergedAsSaid
    <3> QED
      BY <2>1, <3>2 DEF MergeInv, MergeMeetsRfc
  <2> QED
    BY <2>1, <2>2, <2>3 DEF MergeInv
<1> QED
  BY <1>1, <1>2, <1>3, <1>4, <1>5, <1>6 DEF UtilNext

\* At every place, whatever the document and the patch, a merge patch leaves what
\* RFC 7386 says: json_merge_patch.
THEOREM MergeIsRfc == UtilSpec => []MergeMeetsRfc
<1>1. UtilInit => UtilInv /\ RewriteInv /\ MergeInv
  <2>1. UtilInit => MergeInv
    BY DEF UtilInit, MergeInv, MergeMeetsRfc
  <2> QED
    BY <2>1, UtilInitially, RewriteInitially
<1>2. UtilInv /\ RewriteInv /\ MergeInv /\ [UtilNext]_utilVars => UtilInv' /\ RewriteInv' /\ MergeInv'
  BY UtilKept, RewriteKept, MergeKept
<1>3. MergeInv => MergeMeetsRfc
  BY DEF MergeInv
<1> QED
  BY <1>1, <1>2, <1>3, PTL DEF UtilSpec

-----------------------------------------------------------------------------
(* Where util::set writes, and what becomes of the rest.                   *)

\* The step that a segment asks for: the body of Walk.
StepOf(d, above, segment) ==
  IF d[above] = Array THEN {Item(i) : i \in Indexed(d, above, segment)} ELSE {Key(segment)}

LEMMA StepAlone ==
  ASSUME NEW d, NEW above, NEW segment, NEW s \in StepOf(d, above, segment),
         NEW t \in StepOf(d, above, segment)
  PROVE  s = t
BY DEF StepOf, Indexed

LEMMA WalkIs ==
  ASSUME NEW d, NEW s \in Seq(Names), NEW m \in 0 .. Len(s), NEW p \in Seq(Steps)
  PROVE  p \in Walk(d, SubSeq(s, 1, m)) <=>
            /\ p \in DOMAIN d /\ Len(p) = m
            /\ \A n \in 1 .. m : p[n] \in StepOf(d, SubSeq(p, 1, n - 1), s[n])
<1> DEFINE c == SubSeq(s, 1, m)
<1>1. Len(c) = m /\ \A n \in 1 .. m : c[n] = s[n]
  BY CutIs
<1> HIDE DEF c
<1>2. p \in Walk(d, c) <=>
         /\ p \in DOMAIN d /\ Len(p) = Len(c)
         /\ \A n \in 1 .. Len(p) : p[n] \in StepOf(d, SubSeq(p, 1, n - 1), c[n])
  BY DEF Walk, StepOf
<1>3. p \in Walk(d, c) <=>
         /\ p \in DOMAIN d /\ Len(p) = m
         /\ \A n \in 1 .. m : p[n] \in StepOf(d, SubSeq(p, 1, n - 1), s[n])
  BY <1>1, <1>2
<1> QED
  BY <1>3 DEF c

LEMMA WalkedIs ==
  ASSUME NEW d, NEW s \in Seq(Names), NEW m \in 0 .. Len(s), NEW p \in Seq(Steps),
         p \in Walk(d, SubSeq(s, 1, m))
  PROVE  /\ p \in DOMAIN d /\ Len(p) = m /\ m \in Nat
         /\ \A n \in 1 .. m : p[n] \in StepOf(d, SubSeq(p, 1, n - 1), s[n])
<1>1. m \in Nat
  OBVIOUS
<1> QED
  BY <1>1, WalkIs

LEMMA WalkOn ==
  ASSUME NEW d, NEW s \in Seq(Names), NEW p \in Seq(Steps), Len(p) < Len(s),
         p \in Walk(d, SubSeq(s, 1, Len(p))),
         NEW step \in Steps, step \in StepOf(d, p, s[Len(p) + 1]), Append(p, step) \in DOMAIN d
  PROVE  Append(p, step) \in Walk(d, SubSeq(s, 1, Len(p) + 1))
<1> DEFINE q == Append(p, step)
           l == Len(p)
<1>1. l \in Nat /\ l \in 0 .. Len(s) /\ l + 1 \in 0 .. Len(s)
  OBVIOUS
<1>2. /\ q \in Seq(Steps) /\ Len(q) = l + 1 /\ IsPrefix(p, q)
      /\ \A i \in 1 .. l : q[i] = p[i]
      /\ q[l + 1] = step
  BY FrontAppend
<1> HIDE DEF q
<1>3. SubSeq(q, 1, l) = p
  BY <1>2, PrefixSame
<1>4. \A n \in 1 .. l : p[n] \in StepOf(d, SubSeq(p, 1, n - 1), s[n])
  BY <1>1, WalkIs
<1> HIDE DEF l
<1>5. ASSUME NEW n \in 1 .. l
      PROVE  q[n] \in StepOf(d, SubSeq(q, 1, n - 1), s[n])
  <2>1. l \in 0 .. Len(q) /\ n - 1 \in 0 .. l
    BY <1>1, <1>2
  <2>2. SubSeq(p, 1, n - 1) = SubSeq(q, 1, n - 1)
    BY <1>2, <1>3, <2>1, CutCut
  <2> QED
    BY <1>2, <1>4, <2>2
<1>6. q[l + 1] \in StepOf(d, SubSeq(q, 1, (l + 1) - 1), s[l + 1])
  <2>1. (l + 1) - 1 = l
    BY <1>1
  <2> QED
    BY <1>2, <1>3, <2>1 DEF l
<1>7. \A n \in 1 .. l + 1 : n \in 1 .. l \/ n = l + 1
  BY <1>1
<1>8. q \in DOMAIN d
  BY DEF q
<1>9. \A n \in 1 .. l + 1 : q[n] \in StepOf(d, SubSeq(q, 1, n - 1), s[n])
  BY <1>5, <1>6, <1>7
<1>10. q \in Walk(d, SubSeq(s, 1, l + 1))
  BY <1>1, <1>2, <1>8, <1>9, WalkIs
<1> QED
  BY <1>10 DEF q, l

\* A path leads to one place at most.
LEMMA WalkedOnce ==
  ASSUME NEW d, NEW s \in Seq(Names), NEW m \in 0 .. Len(s),
         NEW p \in Seq(Steps), NEW q \in Seq(Steps),
         p \in Walk(d, SubSeq(s, 1, m)), q \in Walk(d, SubSeq(s, 1, m))
  PROVE  p = q
<1>4. /\ Len(p) = m /\ m \in Nat
      /\ \A n \in 1 .. m : p[n] \in StepOf(d, SubSeq(p, 1, n - 1), s[n])
  BY WalkedIs
<1>5. /\ Len(q) = m
      /\ \A n \in 1 .. m : q[n] \in StepOf(d, SubSeq(q, 1, n - 1), s[n])
  BY WalkedIs
<1>1. /\ Len(p) = m /\ Len(q) = m /\ m \in Nat
      /\ \A n \in 1 .. m : p[n] \in StepOf(d, SubSeq(p, 1, n - 1), s[n])
      /\ \A n \in 1 .. m : q[n] \in StepOf(d, SubSeq(q, 1, n - 1), s[n])
  BY <1>4, <1>5
<1> DEFINE apart == {n \in 1 .. m : p[n] # q[n]}
<1>2. ASSUME apart # {}
      PROVE  FALSE
  <2>1. apart \in SUBSET Nat
    BY <1>1
  <2>2. PICK n \in apart : \A k \in apart : n <= k
    BY <1>2, <2>1, LeastOf
  <2>3. n \in 1 .. m /\ p[n] # q[n] /\ \A k \in 1 .. n - 1 : p[k] = q[k]
    BY <1>1, <2>2
  <2>4. n - 1 \in 0 .. Len(p) /\ n - 1 \in 0 .. Len(q)
    BY <1>1, <2>3
  <2> DEFINE a == SubSeq(p, 1, n - 1)
             b == SubSeq(q, 1, n - 1)
  <2>5. /\ a \in Seq(Steps) /\ b \in Seq(Steps) /\ Len(a) = n - 1 /\ Len(b) = n - 1
        /\ \A i \in 1 .. n - 1 : a[i] = p[i]
        /\ \A i \in 1 .. n - 1 : b[i] = q[i]
    BY <2>4, CutIs
  <2> HIDE DEF a, b
  <2>6. \A i \in 1 .. Len(a) : a[i] = b[i]
    BY <2>3, <2>5
  <2>7. a = b
    BY <2>5, <2>6, SeqEqual
  <2>8. p[n] \in StepOf(d, a, s[n]) /\ q[n] \in StepOf(d, b, s[n])
    BY <1>1, <2>3 DEF a, b
  <2> QED
    BY <2>3, <2>7, <2>8, StepAlone
<1>3. \A i \in 1 .. Len(p) : p[i] = q[i]
  BY <1>1, <1>2
<1> QED
  BY <1>1, <1>3, SeqEqual

\* What changes only under a place leaves the way to it.
LEMMA WalkKept ==
  ASSUME NEW d, NEW e, NEW s \in Seq(Names), NEW m \in 0 .. Len(s), NEW p \in Seq(Steps),
         DOMAIN d \subseteq Seq(Steps), DOMAIN e \subseteq Seq(Steps),
         p \in Walk(d, SubSeq(s, 1, m)), p \in DOMAIN e, Tree(d),
         \A q \in Seq(Steps) : ~IsPrefix(p, q) =>
            (q \in DOMAIN d <=> q \in DOMAIN e) /\ (q \in DOMAIN d => e[q] = d[q])
  PROVE  p \in Walk(e, SubSeq(s, 1, m))
<1>1. /\ Len(p) = m /\ m \in Nat /\ p \in DOMAIN d
      /\ \A n \in 1 .. m : p[n] \in StepOf(d, SubSeq(p, 1, n - 1), s[n])
  BY WalkIs
<1>2. ASSUME NEW n \in 1 .. m
      PROVE  StepOf(e, SubSeq(p, 1, n - 1), s[n]) = StepOf(d, SubSeq(p, 1, n - 1), s[n])
  <2> DEFINE above == SubSeq(p, 1, n - 1)
  <2>1. n - 1 \in 0 .. Len(p)
    BY <1>1
  <2>2. above \in Seq(Steps) /\ Len(above) = n - 1 /\ above \in DOMAIN d
    BY <1>1, <2>1, CutIs, TreeAbove
  <2> HIDE DEF above
  <2>3. ~IsPrefix(p, above)
    BY <1>1, <2>2, PrefixIs
  <2>4. e[above] = d[above]
    BY <2>2, <2>3
  <2>5. ASSUME NEW q \in Seq(Steps), q # <<>>, Front(q) = above
        PROVE  q \in DOMAIN d <=> q \in DOMAIN e
    <3>1. Len(q) = n
      <4>1. Len(q) \in Nat \ {0} /\ Len(Front(q)) = Len(q) - 1
        BY <2>5, FrontIs
      <4> QED
        BY <1>1, <2>2, <2>5, <4>1
    <3>2. IsPrefix(p, q) => p = q
      <4>1. IsPrefix(p, q) => Len(p) <= Len(q)
        BY PrefixIs
      <4> QED
        BY <1>1, <3>1, <4>1, PrefixOrder
    <3> QED
      BY <1>1, <3>2
  <2>6. Children(e, above) = Children(d, above)
    BY <2>5 DEF Children
  <2>7. StepOf(e, above, s[n]) = StepOf(d, above, s[n])
    BY <2>4, <2>6 DEF StepOf, Indexed, Length
  <2> QED
    BY <2>7 DEF above
<1> QED
  BY <1>1, <1>2, WalkIs

\* Below a place that holds no step a path asks for, the path leads nowhere.
LEMMA DeadEnd ==
  ASSUME NEW d, Tree(d), NEW s \in Seq(Names), NEW p \in Seq(Steps), Len(p) < Len(s),
         p \in Walk(d, SubSeq(s, 1, Len(p))), d[p] # Object,
         d[p] = Array => Indexed(d, p, s[Len(p) + 1]) = {}
  PROVE  Walk(d, SubSeq(s, 1, Len(p) + 1)) = {}
<1> DEFINE l == Len(p)
<1>1. l \in Nat /\ l \in 0 .. Len(s) /\ l + 1 \in 0 .. Len(s)
  OBVIOUS
<1>2. p \in DOMAIN d
  BY <1>1, WalkIs
<1>3. ASSUME NEW q \in Walk(d, SubSeq(s, 1, l + 1))
      PROVE  FALSE
  <2>1. q \in DOMAIN d /\ q \in Seq(Steps)
    BY TreeIs DEF Walk
  <2>2. /\ Len(q) = l + 1
        /\ \A n \in 1 .. l + 1 : q[n] \in StepOf(d, SubSeq(q, 1, n - 1), s[n])
    BY <1>1, <2>1, WalkIs
  <2> HIDE DEF l
  <2>3. l \in 0 .. Len(q) /\ l < Len(q)
    BY <1>1, <2>2
  <2> DEFINE a == SubSeq(q, 1, l)
  <2>4. a \in Seq(Steps) /\ Len(a) = l /\ a \in DOMAIN d /\ Holds(d[a], q[l + 1])
        /\ \A n \in 1 .. l : a[n] = q[n]
    BY <2>1, <2>3, CutIs, TreeAbove
  <2>5. ASSUME NEW n \in 1 .. l
        PROVE  a[n] \in StepOf(d, SubSeq(a, 1, n - 1), s[n])
    <3>1. n - 1 \in 0 .. l /\ n \in 1 .. l + 1
      BY <1>1
    <3>2. SubSeq(a, 1, n - 1) = SubSeq(q, 1, n - 1)
      BY <2>1, <2>3, <3>1, CutCut
    <3> QED
      BY <2>2, <2>4, <3>1, <3>2
  <2>7. l + 1 \in 1 .. l + 1 /\ (l + 1) - 1 = l
    BY <1>1
  <2>8. q[l + 1] \in StepOf(d, a, s[l + 1])
    BY <2>2, <2>7
  <2> HIDE DEF a
  <2>9. a \in Walk(d, SubSeq(s, 1, l))
    BY <1>1, <2>4, <2>5, WalkIs
  <2>10. p \in Walk(d, SubSeq(s, 1, l))
    BY DEF l
  <2>11. a = p
    BY <1>1, <2>4, <2>9, <2>10, WalkedOnce
  <2>12. /\ q[l + 1] \in StepOf(d, p, s[l + 1]) /\ Holds(d[p], q[l + 1])
         /\ d[p] = Array => Indexed(d, p, s[l + 1]) = {}
    BY <2>4, <2>8, <2>11 DEF l
  <2>13. d[p] # Array
    BY <2>12 DEF StepOf
  <2> QED
    BY <2>12, <2>13 DEF Holds
<1> QED
  BY <1>3 DEF l

\* What was put at a place is what stands there.
LEMMA PartPut ==
  ASSUME NEW d, NEW v, NEW place \in Seq(Steps), DOMAIN d \subseteq Seq(Steps),
         DOMAIN v \subseteq Seq(Steps), v \in [DOMAIN v -> Contents]
  PROVE  Part(Put(d, place, v), place) = v
<1> DEFINE r == Put(d, place, v)
           w == Part(r, place)
<1>1. /\ \A q \in DOMAIN v : place \o q \in DOMAIN r /\ r[place \o q] = v[q]
      /\ DOMAIN r = (DOMAIN d \ Under(d, place)) \cup {place \o q : q \in DOMAIN v}
  BY PutIs DEF Put
<1>2. DOMAIN r \subseteq Seq(Steps)
  <2>1. \A q \in DOMAIN v : place \o q \in Seq(Steps)
    BY Joined
  <2> QED
    BY <1>1, <2>1
<1> HIDE DEF r
<1>3. /\ \A p : p \in DOMAIN w <=> p \in Seq(Steps) /\ place \o p \in DOMAIN r
      /\ \A p \in DOMAIN w : w[p] = r[place \o p]
  BY <1>2, PartIs
<1>4. w = [p \in DOMAIN w |-> w[p]]
  BY DEF Part
<1> HIDE DEF w
<1>5. ASSUME NEW p \in DOMAIN w
      PROVE  p \in DOMAIN v
  <2>1. p \in Seq(Steps) /\ place \o p \in DOMAIN r
    BY <1>3
  <2>2. IsPrefix(place, place \o p)
    BY <2>1, Joined
  <2>3. PICK q \in DOMAIN v : place \o p = place \o q
    BY <1>1, <2>1, <2>2 DEF Under
  <2>4. /\ SubSeq(place \o q, Len(place) + 1, Len(place \o q)) = q
        /\ SubSeq(place \o p, Len(place) + 1, Len(place \o p)) = p
    BY <2>1, Joined
  <2> QED
    BY <2>3, <2>4
<1>6. DOMAIN w = DOMAIN v /\ \A p \in DOMAIN v : w[p] = v[p]
  BY <1>1, <1>3, <1>5
<1>7. w = v
  BY <1>4, <1>6
<1> QED
  BY <1>7 DEF w, r

-----------------------------------------------------------------------------

\* Putting a value at a place leaves what is not under it.
LEMMA PutSame ==
  ASSUME NEW d, NEW v, NEW place \in Seq(Steps), DOMAIN d \subseteq Seq(Steps),
         DOMAIN v \subseteq Seq(Steps), <<>> \in DOMAIN v
  PROVE  /\ \A q \in Seq(Steps) : ~IsPrefix(place, q) =>
               /\ q \in DOMAIN d <=> q \in DOMAIN Put(d, place, v)
               /\ q \in DOMAIN d => Put(d, place, v)[q] = d[q]
         /\ DOMAIN Put(d, place, v) \subseteq Seq(Steps)
         /\ place \in DOMAIN Put(d, place, v) /\ Put(d, place, v)[place] = v[<<>>]
         /\ \A p \in DOMAIN Put(d, place, v) : p \in DOMAIN d \/ IsPrefix(place, p)
<1> DEFINE r == Put(d, place, v)
<1>1. /\ \A p \in DOMAIN d : ~IsPrefix(place, p) => p \in DOMAIN r /\ r[p] = d[p]
      /\ \A q \in DOMAIN v : place \o q \in DOMAIN r /\ r[place \o q] = v[q]
  BY PutIs
<1>7. DOMAIN r = (DOMAIN d \ Under(d, place)) \cup {place \o q : q \in DOMAIN v}
  BY DEF Put
<1> HIDE DEF r
<1>2. \A q \in DOMAIN v : place \o q \in Seq(Steps) /\ IsPrefix(place, place \o q)
  BY Joined
<1>3. place \o <<>> = place
  BY ConcatEmptySeq
<1>4. \A p \in DOMAIN r : p \in Seq(Steps) /\ (p \in DOMAIN d \/ IsPrefix(place, p))
  BY <1>2, <1>7
<1>5. ASSUME NEW q \in Seq(Steps), ~IsPrefix(place, q)
      PROVE  /\ q \in DOMAIN d <=> q \in DOMAIN r
             /\ q \in DOMAIN d => r[q] = d[q]
  BY <1>1, <1>4, <1>5
<1>6. place \in DOMAIN r /\ r[place] = v[<<>>]
  BY <1>1, <1>3
<1> QED
  BY <1>4, <1>5, <1>6 DEF r

\* A place of the target the call came to that is no container of the next step.
LostAt(q) ==
  q \in DOMAIN given /\ given[q] # Object /\ Walk(given, SubSeq(path, 1, Len(q) + 1)) = {}

\* All that there was is still there, or was under such a place.
Framed(d, tip) ==
  \A p \in DOMAIN given :
     \/ p \in DOMAIN d /\ d[p] = given[p]
     \/ \E n \in 0 .. Len(tip) : LostAt(SubSeq(tip, 1, n)) /\ IsPrefix(SubSeq(tip, 1, n), p)

\* How far set has come: nothing has changed yet, or it stands on an object that it
\* made itself and that is still empty.
SetSoFar(d, tip) ==
  /\ new \in Supplied
  /\ Len(tip) < Len(path)
  /\ tip \in Walk(d, SubSeq(path, 1, Len(tip)))
  /\ Framed(d, tip)
  /\ \A p \in DOMAIN d \ DOMAIN given : IsPrefix(p, tip)
  /\ \/ d = given
     \/ d[tip] = Object /\ \A p \in DOMAIN d : IsPrefix(tip, p) => p = tip

SetInv ==
  /\ phase = "holding" => copy = given
  /\ phase \notin {"setting", "set", "failed"} => path = <<>>
  /\ phase = "setting" => SetSoFar(copy, at)
  /\ SetLands

LEMMA CutAppend ==
  ASSUME NEW tip \in Seq(Steps), NEW step \in Steps, NEW n \in 0 .. Len(tip)
  PROVE  SubSeq(Append(tip, step), 1, n) = SubSeq(tip, 1, n) /\ n \in 0 .. Len(Append(tip, step))
<1> DEFINE q == Append(tip, step)
<1>1. q \in Seq(Steps) /\ Len(q) = Len(tip) + 1 /\ IsPrefix(tip, q)
  BY FrontAppend
<1> HIDE DEF q
<1>2. SubSeq(q, 1, Len(tip)) = tip /\ Len(tip) \in 0 .. Len(q)
  BY <1>1, PrefixSame
<1>3. SubSeq(tip, 1, n) = SubSeq(q, 1, n)
  BY <1>1, <1>2, CutCut
<1>4. n \in 0 .. Len(q)
  BY <1>1
<1> QED
  BY <1>3, <1>4 DEF q

LEMMA FramedOn ==
  ASSUME NEW d, NEW tip \in Seq(Steps), NEW step \in Steps, Framed(d, tip)
  PROVE  Framed(d, Append(tip, step))
<1>1. \A n \in 0 .. Len(tip) :
         SubSeq(Append(tip, step), 1, n) = SubSeq(tip, 1, n) /\ n \in 0 .. Len(Append(tip, step))
  BY CutAppend
<1>2. ASSUME NEW p \in DOMAIN given, ~(p \in DOMAIN d /\ d[p] = given[p])
      PROVE  \E n \in 0 .. Len(Append(tip, step)) :
                LostAt(SubSeq(Append(tip, step), 1, n)) /\ IsPrefix(SubSeq(Append(tip, step), 1, n), p)
  <2>1. PICK n \in 0 .. Len(tip) : LostAt(SubSeq(tip, 1, n)) /\ IsPrefix(SubSeq(tip, 1, n), p)
    BY <1>2 DEF Framed
  <2> QED
    BY <1>1, <2>1
<1> QED
  BY <1>2 DEF Framed

\* The place made an object, if it was not one, is on the way still.
LEMMA ObjectReached ==
  ASSUME UtilContained, path \in Seq(Names), at \in Seq(Steps), at \in DOMAIN copy, SetSoFar(copy, at),
         copy[at] = Array => Indexed(copy, at, path[Len(at) + 1]) = {},
         NEW o, o = AsObject(copy, at)
  PROVE  /\ Contained(o) /\ at \in DOMAIN o /\ o[at] = Object
         /\ at \in Walk(o, SubSeq(path, 1, Len(at)))
         /\ Framed(o, at)
         /\ DOMAIN o \subseteq DOMAIN copy
         /\ o = given \/ \A p \in DOMAIN o : IsPrefix(at, p) => p = at
<1>1. /\ Contained(copy) /\ Tree(copy) /\ Contained(given) /\ Tree(given)
      /\ DOMAIN copy \subseteq Seq(Steps) /\ DOMAIN given \subseteq Seq(Steps)
  BY TreeIs DEF UtilContained, Contained
<1>2. Len(at) < Len(path) /\ Len(at) \in 0 .. Len(path)
  BY DEF SetSoFar
<1>3. Open(copy, at)
  BY <1>1, TreeOpen
<1>4. Contained(o) /\ at \in DOMAIN o /\ o[at] = Object
  BY <1>1, <1>3, AsObjectKeeps
<1>5. CASE copy[at] = Object
  <2>1. o = copy
    BY <1>5 DEF AsObject
  <2> QED
    BY <1>4, <2>1 DEF SetSoFar
<1>6. CASE copy[at] # Object
  <2>1. copy = given /\ o = Put(copy, at, Single(Object))
    BY <1>6 DEF SetSoFar, AsObject
  <2> DEFINE v == Single(Object)
  <2>2. DOMAIN v = {<<>>} /\ <<>> \in Seq(Steps)
    BY EmptySeq DEF Single
  <2> HIDE DEF v
  <2>3. /\ \A q \in Seq(Steps) : ~IsPrefix(at, q) =>
              (q \in DOMAIN copy <=> q \in DOMAIN o) /\ (q \in DOMAIN copy => o[q] = copy[q])
        /\ DOMAIN o \subseteq Seq(Steps)
    <3>1. o = Put(copy, at, v) /\ DOMAIN v \subseteq Seq(Steps) /\ <<>> \in DOMAIN v
      BY <2>1, <2>2 DEF v
    <3> QED
      BY <1>1, <3>1, PutSame
  <2>4. at \in Walk(copy, SubSeq(path, 1, Len(at)))
    BY DEF SetSoFar
  <2>5. at \in Walk(o, SubSeq(path, 1, Len(at)))
    BY <1>1, <1>2, <1>4, <2>3, <2>4, WalkKept
  <2>6. \A p \in DOMAIN o : IsPrefix(at, p) => p = at
    <3>1. \A p \in DOMAIN o : \/ p \in DOMAIN copy /\ ~IsPrefix(at, p)
                              \/ \E q \in DOMAIN v : p = at \o q
      <4>1. o = Put(copy, at, v) /\ DOMAIN v \subseteq Seq(Steps)
        BY <2>1, <2>2 DEF v
      <4> QED
        BY <1>1, <4>1, PutIs
    <3>2. at \o <<>> = at
      BY ConcatEmptySeq
    <3> QED
      BY <2>2, <3>1, <3>2
  <2>7. DOMAIN o \subseteq DOMAIN copy
    BY <2>3, <2>6
  <2>8. LostAt(at)
    <3>1. Walk(copy, SubSeq(path, 1, Len(at) + 1)) = {}
      BY <1>1, <1>2, <1>6, <2>4, DeadEnd
    <3> QED
      BY <1>6, <2>1, <3>1 DEF LostAt
  <2>9. Framed(o, at)
    <3>1. SubSeq(at, 1, Len(at)) = at /\ Len(at) \in 0 .. Len(at)
      <4>1. IsPrefix(at, at)
        BY PrefixOrder
      <4> QED
        BY <4>1, PrefixSame
    <3>2. ASSUME NEW p \in DOMAIN given
          PROVE  \/ p \in DOMAIN o /\ o[p] = given[p]
                 \/ IsPrefix(at, p)
      BY <1>1, <2>1, <2>3
    <3> QED
      BY <2>8, <3>1, <3>2 DEF Framed
  <2> QED
    BY <1>4, <2>5, <2>6, <2>7, <2>9
<1> QED
  BY <1>5, <1>6

\* A value stands where the path leads, and what is not under it is as it was.
Reached(o, s, next, e) ==
  /\ next \in DOMAIN e
  /\ next \in Walk(e, SubSeq(s, 1, Len(next)))
  /\ \A q \in Seq(Steps) : ~IsPrefix(next, q) =>
        (q \in DOMAIN o <=> q \in DOMAIN e) /\ (q \in DOMAIN o => e[q] = o[q])
  /\ \A p \in DOMAIN e : p \in DOMAIN o \/ IsPrefix(next, p)

\* A value put under the key that the path asks for is where the path leads.
LEMMA KeyWritten ==
  ASSUME NEW o, Contained(o), NEW tip \in Seq(Steps), tip \in DOMAIN o, o[tip] = Object,
         NEW s \in Seq(Names), Len(tip) < Len(s), tip \in Walk(o, SubSeq(s, 1, Len(tip))),
         NEW v, Contained(v), NEW next, next = Append(tip, Key(s[Len(tip) + 1])),
         NEW e, e = Put(o, next, v)
  PROVE  Reached(o, s, next, e)
<1> DEFINE seg == s[Len(tip) + 1]
           l == Len(tip)
<1>1. /\ Tree(o) /\ DOMAIN o \subseteq Seq(Steps) /\ DOMAIN v \subseteq Seq(Steps) /\ <<>> \in DOMAIN v
      /\ l \in Nat /\ l + 1 \in 1 .. Len(s) /\ l \in 0 .. Len(s)
  BY TreeIs DEF Contained
<1>2. seg \in Names /\ Key(seg) \in Steps
  BY <1>1, StepIs
<1>3. next \in Seq(Steps) /\ Len(next) = l + 1 /\ IsPrefix(tip, next)
  BY <1>2, FrontAppend
<1>4. /\ \A q \in Seq(Steps) : ~IsPrefix(next, q) =>
            (q \in DOMAIN o <=> q \in DOMAIN e) /\ (q \in DOMAIN o => e[q] = o[q])
      /\ DOMAIN e \subseteq Seq(Steps)
      /\ next \in DOMAIN e /\ e[next] = v[<<>>]
      /\ \A p \in DOMAIN e : p \in DOMAIN o \/ IsPrefix(next, p)
  <2> HIDE DEF seg
  <2> DEFINE f == Put(o, next, v)
  <2>1. /\ \A q \in Seq(Steps) : ~IsPrefix(next, q) =>
              (q \in DOMAIN o <=> q \in DOMAIN f) /\ (q \in DOMAIN o => f[q] = o[q])
        /\ DOMAIN f \subseteq Seq(Steps)
        /\ next \in DOMAIN f /\ f[next] = v[<<>>]
        /\ \A p \in DOMAIN f : p \in DOMAIN o \/ IsPrefix(next, p)
    <3>1. next \in Seq(Steps) /\ DOMAIN o \subseteq Seq(Steps) /\ DOMAIN v \subseteq Seq(Steps)
          /\ <<>> \in DOMAIN v
      BY <1>1, <1>3
    <3> QED
      BY ONLY <3>1, PutSame DEF f
  <2>2. e = f
    OBVIOUS
  <2> QED
    BY <2>1, <2>2
<1>5. ASSUME NEW q \in Seq(Steps), ~IsPrefix(tip, q)
      PROVE  ~IsPrefix(next, q)
  <2>1. IsPrefix(tip, next) /\ IsPrefix(next, q) => IsPrefix(tip, q)
    <3>1. tip \in Seq(Steps) /\ next \in Seq(Steps) /\ q \in Seq(Steps)
      BY <1>3
    <3> QED
      BY ONLY <3>1, PrefixOrder
  <2> QED
    BY <1>3, <1>5, <2>1
<1>6. ~IsPrefix(next, tip)
  <2>1. IsPrefix(next, tip) => Len(next) <= Len(tip)
    BY <1>3, PrefixIs
  <2> QED
    BY <1>1, <1>3, <2>1
<1>7. tip \in DOMAIN e /\ e[tip] = Object
  BY <1>4, <1>6
<1>8. \A q \in Seq(Steps) : ~IsPrefix(tip, q) =>
            (q \in DOMAIN o <=> q \in DOMAIN e) /\ (q \in DOMAIN o => e[q] = o[q])
  BY <1>4, <1>5
<1>9. tip \in Walk(e, SubSeq(s, 1, Len(tip)))
  BY <1>1, <1>4, <1>7, <1>8, WalkKept
<1>10. Key(seg) \in StepOf(e, tip, seg)
  BY <1>7 DEF StepOf, Object, Array
<1>11. Append(tip, Key(seg)) \in DOMAIN e
  BY <1>4
<1>12. Append(tip, Key(seg)) \in Walk(e, SubSeq(s, 1, Len(tip) + 1))
  BY <1>2, <1>9, <1>10, <1>11, WalkOn
<1> QED
  BY <1>3, <1>4, <1>12 DEF Reached

-----------------------------------------------------------------------------

\* What SetLands asks of the result.
Landed(d, target) ==
  /\ target \in Walk(d, path) /\ Part(d, target) = new
  /\ \A p \in DOMAIN given :
        \/ p \in DOMAIN d /\ d[p] = given[p]
        \/ IsPrefix(target, p) /\ target \in DOMAIN given
        \/ \E n \in 0 .. Len(target) : LostAt(SubSeq(target, 1, n)) /\ IsPrefix(SubSeq(target, 1, n), p)
  /\ \A p \in DOMAIN d \ DOMAIN given : IsPrefix(p, target) \/ IsPrefix(target, p)

LEMMA SetStays ==
  ASSUME UNCHANGED <<given, path, new>>, SetSoFar(copy', at')
  PROVE  SetSoFar(copy, at)'
BY DEF SetSoFar, Framed, LostAt

LEMMA LandsNext ==
  ASSUME UNCHANGED <<given, path, new>>, UtilContained', NEW target, Landed(doc', target), phase' = "set"
  PROVE  SetLands'
<1>1. target \in Seq(Steps)
  BY TreeIs DEF UtilContained, Contained, Landed, Walk
<1>2. ASSUME NEW p \in DOMAIN given
      PROVE  \/ p \in DOMAIN doc' /\ doc'[p] = given[p]
             \/ \E n \in 0 .. Len(target) :
                   /\ SubSeq(target, 1, n) \in DOMAIN given
                   /\ \/ n = Len(target)
                      \/ given[SubSeq(target, 1, n)] # Object /\ Walk(given, SubSeq(path, 1, n + 1)) = {}
                   /\ IsPrefix(SubSeq(target, 1, n), p)
  <2>1. CASE p \in DOMAIN doc' /\ doc'[p] = given[p]
    BY <2>1
  <2>2. CASE IsPrefix(target, p) /\ target \in DOMAIN given
    <3>1. SubSeq(target, 1, Len(target)) = target /\ Len(target) \in 0 .. Len(target)
      BY <1>1, PrefixOrder, PrefixSame
    <3> QED
      BY <2>2, <3>1
  <2>3. CASE \E n \in 0 .. Len(target) : LostAt(SubSeq(target, 1, n)) /\ IsPrefix(SubSeq(target, 1, n), p)
    <3>1. PICK n \in 0 .. Len(target) : LostAt(SubSeq(target, 1, n)) /\ IsPrefix(SubSeq(target, 1, n), p)
      BY <2>3
    <3>2. Len(SubSeq(target, 1, n)) = n
      BY <1>1, CutIs
    <3> QED
      BY <3>1, <3>2 DEF LostAt
  <2> QED
    BY <2>1, <2>2, <2>3 DEF Landed
<1>3. /\ target \in Walk(doc, path)' /\ Part(doc, target)' = new'
      /\ \A p \in (DOMAIN doc)' \ DOMAIN given : IsPrefix(p, target) \/ IsPrefix(target, p)
  <2>1. Walk(doc, path)' = Walk(doc', path) /\ Part(doc, target)' = Part(doc', target)
    BY DEF Walk, Part, Under, Indexed, Length, Children
  <2> QED
    BY <2>1 DEF Landed
<1> QED
  BY <1>2, <1>3 DEF SetLands

LEMMA SetBegins ==
  ASSUME UtilInv, SetInv, NEW segments \in Paths, NEW value \in Supplied, BeginSet(segments, value)
  PROVE  SetInv'
<1>1. /\ phase = "holding" /\ copy = given /\ UNCHANGED <<given, copy, at>> /\ at = <<>>
      /\ path' = segments /\ new' = value
      /\ phase' = IF segments = << <<>> >> THEN "failed" ELSE "setting"
      /\ Tree(copy)
  BY DEF BeginSet, SetInv, UtilInv, UtilContained, Contained
<1>2. CASE segments = << <<>> >>
  BY <1>1, <1>2 DEF SetInv, SetLands
<1>3. CASE segments # << <<>> >>
  <2>1. segments \in Seq(Names) /\ segments # <<>>
    BY UtilAssumption
  <2>2. Len(<<>>) = 0 /\ Len(segments) > 0 /\ 0 \in 0 .. Len(segments) /\ <<>> \in Seq(Steps)
    BY <2>1, EmptySeq
  <2>3. <<>> \in Walk(copy, SubSeq(segments, 1, 0))
    <3>1. <<>> \in DOMAIN copy /\ \A n \in 1 .. 0 : FALSE
      BY <1>1, TreeIs
    <3> QED
      BY <2>1, <2>2, <3>1, WalkIs
  <2>4. SetSoFar(copy, at)'
    <3>1. Framed(copy, at)' /\ (\A p \in DOMAIN copy \ DOMAIN given : IsPrefix(p, at))'
      BY <1>1 DEF Framed
    <3>2. (at \in Walk(copy, SubSeq(path, 1, Len(at))))' /\ (Len(at) < Len(path))'
      BY <1>1, <2>2, <2>3 DEF Walk
    <3> QED
      BY <1>1, <3>1, <3>2 DEF SetSoFar
  <2> QED
    BY <1>1, <1>3, <2>4 DEF SetInv, SetLands
<1> QED
  BY <1>2, <1>3

LEMMA SetToItem ==
  ASSUME UtilInv, SetInv, StepToItem
  PROVE  SetInv'
<1>1. /\ phase = "setting" /\ Len(at) < Len(path) - 1 /\ copy[at] = Array /\ IsNumber(Segment)
      /\ UNCHANGED <<given, copy, path, new>> /\ SetSoFar(copy, at)
      /\ path \in Paths /\ at \in Seq(Steps) /\ at \in DOMAIN copy
      /\ Tree(copy) /\ DOMAIN copy \subseteq Seq(Steps)
  BY TreeIs DEF StepToItem, OnParent, SetInv, UtilInv, UtilContained, Contained, setVars
<1>2. /\ path \in Seq(Names) /\ Len(at) \in Nat /\ Len(path) \in Nat /\ Len(at) < Len(path)
      /\ Len(at) \in 0 .. Len(path) - 2 /\ Len(at) + 1 < Len(path)
  BY <1>1, UtilAssumption
<1>3. copy = given /\ at \in Walk(copy, SubSeq(path, 1, Len(at)))
  BY <1>1 DEF SetSoFar, Object, Array
<1>4. CASE Indexed(copy, at, Segment) = {}
  <2>1. phase' = "failed"
    BY <1>4 DEF StepToItem
  <2>2. /\ at \in Walk(given, SubSeq(path, 1, Len(at))) /\ given[at] = Array
        /\ IsNumber(path[Len(at) + 1]) /\ Indexed(given, at, path[Len(at) + 1]) = {}
    BY <1>1, <1>3, <1>4 DEF Segment
  <2>3. \E n \in 0 .. Len(path) - 2 : \E p \in Walk(given, SubSeq(path, 1, n)) :
            given[p] = Array /\ IsNumber(path[n + 1]) /\ Indexed(given, p, path[n + 1]) = {}
    BY <1>2, <2>2
  <2>4. SetLands'
    BY <1>1, <2>1, <2>3 DEF SetLands
  <2> QED
    BY <2>1, <2>4 DEF SetInv
<1>5. CASE Indexed(copy, at, Segment) # {}
  <2>1. phase' = phase /\ \E i \in Indexed(copy, at, Segment) : at' = Append(at, Item(i))
    BY <1>5 DEF StepToItem
  <2>2. PICK i \in Indexed(copy, at, Segment) : at' = Append(at, Item(i))
    BY <2>1
  <2>3. i \in Nat /\ i < Length(copy, at)
    <3>1. i \in 0 .. Length(copy, at) - 1 /\ Length(copy, at) \in Nat
      BY <1>1, <2>2, LengthIs DEF Indexed
    <3> QED
      BY <3>1
  <2>4. Item(i) \in Steps /\ at' \in DOMAIN copy
    BY <1>1, <2>2, <2>3, ItemIs, StepIs
  <2>5. Item(i) \in StepOf(copy, at, path[Len(at) + 1])
    BY <1>1, <2>2 DEF StepOf, Segment
  <2>6. Len(at') = Len(at) + 1
    BY <1>1, <2>2, <2>4, FrontAppend
  <2>7. Append(at, Item(i)) \in Walk(copy, SubSeq(path, 1, Len(at) + 1))
    BY <1>1, <1>2, <1>3, <2>2, <2>4, <2>5, WalkOn
  <2>8. at' \in Walk(copy', SubSeq(path, 1, Len(at')))
    BY <1>1, <2>2, <2>6, <2>7
  <2>9. SetSoFar(copy', at')
    <3>1. Framed(copy', at') /\ \A p \in DOMAIN copy' \ DOMAIN given : IsPrefix(p, at')
      BY <1>1, <1>3 DEF Framed
    <3>2. new \in Supplied
      BY <1>1 DEF SetSoFar
    <3> QED
      BY <1>1, <1>2, <1>3, <2>6, <2>8, <3>1, <3>2 DEF SetSoFar
  <2>10. SetSoFar(copy, at)'
    BY <1>1, <2>9, SetStays
  <2> QED
    BY <1>1, <2>1, <2>10 DEF SetInv, SetLands
<1> QED
  BY <1>4, <1>5

-----------------------------------------------------------------------------

LEMMA SetToKey ==
  ASSUME UtilInv, SetInv, StepToKey
  PROVE  SetInv'
<1> DEFINE object == AsObject(copy, at)
           next == Append(at, Key(path[Len(at) + 1]))
           empty == Single(Object)
<1>1. /\ phase = "setting" /\ Len(at) < Len(path) - 1 /\ phase' = phase
      /\ UNCHANGED <<given, path, new>> /\ SetSoFar(copy, at)
      /\ path \in Paths /\ at \in Seq(Steps) /\ at \in DOMAIN copy
      /\ UtilContained
  BY DEF StepToKey, OnParent, SetInv, UtilInv, setVars
<1>2. /\ path \in Seq(Names) /\ Len(at) \in Nat /\ Len(path) \in Nat /\ Len(at) < Len(path)
      /\ Len(at) + 1 < Len(path)
  BY <1>1, UtilAssumption
<1>3. /\ copy' = IF next \in DOMAIN object THEN object ELSE Put(object, next, empty)
      /\ at' = next
  BY DEF StepToKey, Segment
<1>4. copy[at] = Array => Indexed(copy, at, path[Len(at) + 1]) = {}
  <2>1. ~(copy[at] = Array /\ IsNumber(Segment))
    BY DEF StepToKey
  <2> QED
    BY <2>1 DEF Indexed, Segment
<1>5. /\ Contained(object) /\ at \in DOMAIN object /\ object[at] = Object
      /\ at \in Walk(object, SubSeq(path, 1, Len(at)))
      /\ Framed(object, at)
      /\ DOMAIN object \subseteq DOMAIN copy
      /\ object = given \/ \A p \in DOMAIN object : IsPrefix(at, p) => p = at
  BY <1>1, <1>2, <1>4, ObjectReached
<1> HIDE DEF object
<1>6. /\ next \in Seq(Steps) /\ Len(next) = Len(at) + 1 /\ IsPrefix(at, next)
      /\ path[Len(at) + 1] \in Names /\ Key(path[Len(at) + 1]) \in Steps
  <2>1. path[Len(at) + 1] \in Names
    BY <1>2
  <2> QED
    BY <1>1, <2>1, StepIs, FrontAppend
<1>7. /\ Contained(empty) /\ empty[<<>>] = Object /\ DOMAIN empty = {<<>>}
  BY SingleContained DEF Single
<1>8. Framed(object, next)
  BY <1>1, <1>5, <1>6, FramedOn
<1>9. next # at
  BY <1>2, <1>6
<1>10. \A p \in DOMAIN object \ DOMAIN given : IsPrefix(p, next)
  <2>1. ASSUME NEW p \in DOMAIN object \ DOMAIN given
        PROVE  IsPrefix(p, next)
    <3>1. p \in Seq(Steps) /\ IsPrefix(p, at)
      BY <1>1, <1>5, TreeIs DEF SetSoFar, Contained
    <3> HIDE DEF next
    <3> QED
      BY <1>1, <1>6, <3>1, PrefixOrder
  <2> QED
    BY <2>1
<1>11. new \in Supplied
  BY <1>1 DEF SetSoFar
<1>12. CASE next \in DOMAIN object
  <2>1. copy' = object /\ object = given
    BY <1>3, <1>5, <1>6, <1>9, <1>12
  <2>2. Key(path[Len(at) + 1]) \in StepOf(object, at, path[Len(at) + 1])
    BY <1>5 DEF StepOf, Object, Array
  <2>3. next \in Walk(object, SubSeq(path, 1, Len(at) + 1))
    BY <1>1, <1>2, <1>5, <1>6, <1>12, <2>2, WalkOn
  <2> HIDE DEF next
  <2>4. SetSoFar(copy', at')
    BY <1>2, <1>3, <1>6, <1>8, <1>10, <1>11, <2>1, <2>3 DEF SetSoFar
  <2> QED
    BY <1>1, <2>4, SetStays DEF SetInv, SetLands
<1>13. CASE next \notin DOMAIN object
  <2> DEFINE e == Put(object, next, empty)
  <2>1. copy' = e
    BY <1>3, <1>13
  <2> HIDE DEF empty
  <2>2. Reached(object, path, next, e) /\ e[next] = empty[<<>>]
    <3>1. next = Append(at, Key(path[Len(at) + 1])) /\ e = Put(object, next, empty)
      OBVIOUS
    <3> HIDE DEF next, e
    <3>2. /\ Contained(object) /\ at \in Seq(Steps) /\ at \in DOMAIN object /\ object[at] = Object
          /\ path \in Seq(Names) /\ Len(at) < Len(path) /\ Contained(empty)
          /\ at \in Walk(object, SubSeq(path, 1, Len(at)))
          /\ next = Append(at, Key(path[Len(at) + 1])) /\ e = Put(object, next, empty)
      BY <1>1, <1>2, <1>5, <1>7, <3>1
    <3>3. Reached(object, path, next, e)
      BY ONLY <3>2, KeyWritten
    <3>4. e[next] = empty[<<>>]
      <4>1. /\ next \in Seq(Steps) /\ DOMAIN object \subseteq Seq(Steps) /\ DOMAIN empty \subseteq Seq(Steps)
            /\ <<>> \in DOMAIN empty /\ e = Put(object, next, empty)
        BY <1>5, <1>6, <1>7, <3>1, TreeIs DEF Contained, next
      <4> QED
        BY ONLY <4>1, PutSame
    <3> QED
      BY <3>3, <3>4
  <2>3. \A p \in DOMAIN object : ~IsPrefix(next, p)
    BY <1>5, <1>6, <1>13, TreeBetween DEF Contained
  <2>4. \A p \in DOMAIN e : \/ p \in DOMAIN object /\ ~IsPrefix(next, p)
                            \/ p = next
    <3>1. DOMAIN e = (DOMAIN object \ Under(object, next)) \cup {next \o q : q \in DOMAIN empty}
      BY DEF Put
    <3> HIDE DEF e, next
    <3>2. next \o <<>> = next
      BY <1>6, ConcatEmptySeq
    <3> QED
      BY <1>7, <3>1, <3>2 DEF Under
  <2> HIDE DEF e, next
  <2>5. \A p \in DOMAIN object : p \in DOMAIN e /\ e[p] = object[p]
    BY <1>5, <2>2, <2>3, TreeIs DEF Contained, Reached
  <2>6. Framed(e, next)
    BY <1>8, <2>5 DEF Framed
  <2>7. \A p \in DOMAIN e \ DOMAIN given : IsPrefix(p, next)
    <3>1. IsPrefix(next, next)
      BY <1>6, PrefixOrder
    <3> QED
      BY <1>10, <2>4, <3>1
  <2>8. SetSoFar(copy', at')
    <3>1. copy' = e /\ at' = next
      BY <1>3, <2>1
    <3> QED
      BY <1>2, <1>6, <1>7, <1>11, <2>2, <2>4, <2>6, <2>7, <3>1 DEF SetSoFar, Reached
  <2> QED
    BY <1>1, <2>8, SetStays DEF SetInv, SetLands
<1> QED
  BY <1>12, <1>13

\* The last step, to an item of an array that was there all along.
LEMMA SetItem ==
  ASSUME UtilInv, SetInv, WriteLast, UtilContained',
         copy[at] = Array /\ Indexed(copy, at, Segment) # {}
  PROVE  SetLands'
<1>1. /\ phase = "setting" /\ Len(at) = Len(path) - 1 /\ phase' = "set" /\ doc' = copy'
      /\ UNCHANGED <<given, path, new>> /\ SetSoFar(copy, at)
      /\ path \in Paths /\ at \in Seq(Steps) /\ at \in DOMAIN copy
      /\ Tree(copy) /\ DOMAIN copy \subseteq Seq(Steps) /\ Contained(new)
      /\ \E i \in Indexed(copy, at, Segment) : copy' = Put(copy, Append(at, Item(i)), new)
  BY TreeIs DEF WriteLast, SetInv, UtilInv, UtilContained, Contained, setVars
<1>2. /\ path \in Seq(Names) /\ Len(at) \in Nat /\ Len(path) \in Nat /\ Len(at) < Len(path)
      /\ Len(at) + 1 = Len(path) /\ Len(path) \in 0 .. Len(path) /\ SubSeq(path, 1, Len(path)) = path
  BY <1>1, UtilAssumption
<1>3. copy = given /\ at \in Walk(copy, SubSeq(path, 1, Len(at))) /\ new \in Supplied
  BY <1>1 DEF SetSoFar, Object, Array
<1>4. PICK i \in Indexed(copy, at, Segment) : copy' = Put(copy, Append(at, Item(i)), new)
  BY <1>1
<1> DEFINE target == Append(at, Item(i))
<1>5. i \in Nat /\ i < Length(copy, at)
  <2>1. i \in 0 .. Length(copy, at) - 1 /\ Length(copy, at) \in Nat
    BY <1>1, <1>4, LengthIs DEF Indexed
  <2> QED
    BY <2>1
<1>6. Item(i) \in Steps /\ target \in DOMAIN copy
  BY <1>1, <1>4, <1>5, ItemIs, StepIs
<1>7. Item(i) \in StepOf(copy, at, path[Len(at) + 1])
  BY <1>1, <1>4 DEF StepOf, Segment
<1>8. target \in Walk(copy, SubSeq(path, 1, Len(at) + 1))
  BY <1>1, <1>2, <1>3, <1>6, <1>7, WalkOn
<1> HIDE DEF target
<1>9. target \in Seq(Steps) /\ target \in Walk(copy, SubSeq(path, 1, Len(path)))
  BY <1>1, <1>2, <1>6, <1>8
<1>10. copy' = Put(copy, target, new) /\ DOMAIN new \subseteq Seq(Steps) /\ <<>> \in DOMAIN new
  BY <1>1, <1>4, TreeIs DEF Contained, target
<1> DEFINE e == Put(copy, target, new)
<1>11. /\ \A q \in Seq(Steps) : ~IsPrefix(target, q) =>
             (q \in DOMAIN copy <=> q \in DOMAIN e) /\ (q \in DOMAIN copy => e[q] = copy[q])
       /\ DOMAIN e \subseteq Seq(Steps) /\ target \in DOMAIN e
       /\ \A p \in DOMAIN e : p \in DOMAIN copy \/ IsPrefix(target, p)
  BY <1>1, <1>9, <1>10, PutSame
<1>12. Part(e, target) = new
  <2>1. new \in [DOMAIN new -> Contents]
    BY <1>3, UtilAssumption
  <2> QED
    BY <1>1, <1>9, <1>10, <2>1, PartPut
<1> HIDE DEF e
<1>13. target \in Walk(e, SubSeq(path, 1, Len(path)))
  BY <1>1, <1>2, <1>9, <1>11, WalkKept
<1>14. Landed(e, target)
  BY <1>1, <1>2, <1>3, <1>6, <1>11, <1>12, <1>13 DEF Landed
<1>15. doc' = e
  BY <1>1, <1>10 DEF e
<1> QED
  BY <1>1, <1>14, <1>15, LandsNext

\* The last step, to a key.
LEMMA SetKey ==
  ASSUME UtilInv, SetInv, WriteLast, UtilContained',
         ~(copy[at] = Array /\ Indexed(copy, at, Segment) # {})
  PROVE  SetLands'
<1> DEFINE object == AsObject(copy, at)
           next == Append(at, Key(path[Len(at) + 1]))
<1>1. /\ phase = "setting" /\ Len(at) = Len(path) - 1 /\ phase' = "set" /\ doc' = copy'
      /\ UNCHANGED <<given, path, new>> /\ SetSoFar(copy, at)
      /\ path \in Paths /\ at \in Seq(Steps) /\ at \in DOMAIN copy
      /\ UtilContained /\ Contained(new) /\ Contained(given)
      /\ doc' = Put(object, next, new)
  BY DEF WriteLast, SetInv, UtilInv, UtilContained, Segment, setVars
<1>2. /\ path \in Seq(Names) /\ Len(at) \in Nat /\ Len(path) \in Nat /\ Len(at) < Len(path)
      /\ Len(at) + 1 = Len(path) /\ SubSeq(path, 1, Len(path)) = path
  BY <1>1, UtilAssumption
<1>4. copy[at] = Array => Indexed(copy, at, path[Len(at) + 1]) = {}
  BY DEF Segment
<1>5. /\ Contained(object) /\ at \in DOMAIN object /\ object[at] = Object
      /\ at \in Walk(object, SubSeq(path, 1, Len(at)))
      /\ Framed(object, at)
      /\ DOMAIN object \subseteq DOMAIN copy
  BY <1>1, <1>2, <1>4, ObjectReached
<1> HIDE DEF object
<1>6. /\ next \in Seq(Steps) /\ Len(next) = Len(at) + 1 /\ IsPrefix(at, next)
      /\ path[Len(at) + 1] \in Names /\ Key(path[Len(at) + 1]) \in Steps
  <2>1. path[Len(at) + 1] \in Names
    BY <1>2
  <2> QED
    BY <1>1, <2>1, StepIs, FrontAppend
<1>7. Framed(object, next)
  BY <1>1, <1>5, <1>6, FramedOn
<1> DEFINE e == Put(object, next, new)
<1>8. Reached(object, path, next, e)
  <2>1. next = Append(at, Key(path[Len(at) + 1])) /\ e = Put(object, next, new)
    OBVIOUS
  <2> HIDE DEF next, e
  <2>2. /\ Contained(object) /\ at \in Seq(Steps) /\ at \in DOMAIN object /\ object[at] = Object
        /\ path \in Seq(Names) /\ Len(at) < Len(path) /\ Contained(new)
        /\ at \in Walk(object, SubSeq(path, 1, Len(at)))
        /\ next = Append(at, Key(path[Len(at) + 1])) /\ e = Put(object, next, new)
    BY <1>1, <1>2, <1>5, <2>1
  <2> QED
    BY ONLY <2>2, KeyWritten
<1> HIDE DEF next
<1>9. Part(e, next) = new
  <2>1. /\ new \in [DOMAIN new -> Contents]
    BY <1>1, UtilAssumption DEF SetSoFar
  <2>2. DOMAIN object \subseteq Seq(Steps) /\ DOMAIN new \subseteq Seq(Steps)
    BY <1>1, <1>5, TreeIs DEF Contained
  <2> QED
    BY <1>6, <2>1, <2>2, PartPut
<1> HIDE DEF e
<1>10. next \in Walk(e, path)
  BY <1>2, <1>6, <1>8 DEF Reached
<1>11. ASSUME NEW p \in DOMAIN given
       PROVE  \/ p \in DOMAIN e /\ e[p] = given[p]
              \/ IsPrefix(next, p) /\ next \in DOMAIN given
              \/ \E n \in 0 .. Len(next) : LostAt(SubSeq(next, 1, n)) /\ IsPrefix(SubSeq(next, 1, n), p)
  <2>1. CASE IsPrefix(next, p)
    BY <1>1, <1>6, <2>1, TreeBetween DEF Contained
  <2>2. CASE ~IsPrefix(next, p)
    <3>1. p \in Seq(Steps)
      BY <1>1, TreeIs DEF Contained
    <3> QED
      BY <1>7, <1>8, <2>2, <3>1 DEF Framed, Reached
  <2> QED
    BY <2>1, <2>2
<1>12. ASSUME NEW p \in DOMAIN e \ DOMAIN given
       PROVE  IsPrefix(p, next) \/ IsPrefix(next, p)
  <2>1. CASE p \in DOMAIN object
    <3>1. p \in Seq(Steps) /\ IsPrefix(p, at)
      BY <1>1, <1>5, <2>1, TreeIs DEF SetSoFar, Contained
    <3> QED
      BY <1>1, <1>6, <3>1, PrefixOrder
  <2> QED
    BY <1>8, <2>1 DEF Reached
<1>13. Landed(e, next)
  BY <1>9, <1>10, <1>11, <1>12 DEF Landed
<1>14. doc' = e
  BY <1>1 DEF e, next
<1> QED
  BY <1>1, <1>13, <1>14, LandsNext

LEMMA SetKept == UtilInv /\ UtilInv' /\ SetInv /\ [UtilNext]_utilVars => SetInv'
<1> SUFFICES ASSUME UtilInv, UtilInv', SetInv, [UtilNext]_utilVars
             PROVE  SetInv'
  OBVIOUS
<1>1. ASSUME NEW n \in 0 .. MaxPatchOps + 1, NEW list \in BOOLEAN, BeginPatch(n, list)
      PROVE  SetInv'
  <2>1. phase = "holding" /\ phase' \notin {"holding", "setting", "set"} /\ path' = path
    BY <1>1, PatchBegins
  <2> QED
    BY <2>1 DEF SetInv, SetLands
<1>2. ASSUME \/ \E op \in Operations : Apply(op)
             \/ EndPatch \/ EndMerge \/ EndRewrite \/ BeginRewrite \/ PutText \/ Swapping
             \/ \E supplied \in Supplied : BeginMerge(supplied)
             \/ \E place \in todo : MergeTurn(place)
             \/ \E place \in todo : Visit(place) \/ TakeText(place)
      PROVE  SetInv'
  <2>1. /\ phase \notin {"setting", "set", "failed"} /\ phase' \notin {"holding", "setting", "set"}
        /\ path' = path
    BY <1>2 DEF Apply, EndPatch, EndMerge, EndRewrite, Return, BeginRewrite, PutText, Swapping, SwapNext,
                SwapTurn, EndSwap, BeginMerge, MergeTurn, Visit, TakeText, setVars
  <2> QED
    BY <2>1 DEF SetInv, SetLands
<1>3. ASSUME \E segments \in Paths, value \in Supplied : BeginSet(segments, value)
      PROVE  SetInv'
  BY <1>3, SetBegins
<1>4. ASSUME StepToItem
      PROVE  SetInv'
  BY <1>4, SetToItem
<1>5. ASSUME StepToKey
      PROVE  SetInv'
  BY <1>5, SetToKey
<1>6. ASSUME WriteLast
      PROVE  SetInv'
  <2>1. phase' = "set"
    BY <1>6 DEF WriteLast
  <2>2. UtilContained'
    BY DEF UtilInv
  <2>3. SetLands'
    BY <1>6, <2>2, SetItem, SetKey
  <2> QED
    BY <2>1, <2>3 DEF SetInv
<1>7. ASSUME UNCHANGED utilVars
      PROVE  SetInv'
  <2>1. UNCHANGED <<phase, doc, given, copy, path, new, at>>
    BY <1>7 DEF utilVars, setVars
  <2>2. phase = "setting" => SetSoFar(copy, at)'
    BY <2>1, SetStays DEF SetInv
  <2>3. SetLands'
    <3>1. /\ \A s : Walk(doc, s)' = Walk(doc, s) /\ Walk(given, s)' = Walk(given, s)
          /\ \A place : Part(doc, place)' = Part(doc, place)
          /\ \A place, s : Indexed(given, place, s)' = Indexed(given, place, s)
      BY <2>1 DEF Walk, Part, Under, Indexed, Length, Children
    <3> QED
      BY <2>1, <3>1 DEF SetInv, SetLands
  <2> QED
    BY <2>1, <2>2, <2>3 DEF SetInv
<1> QED
  BY <1>1, <1>2, <1>3, <1>4, <1>5, <1>6, <1>7 DEF UtilNext

\* Whatever the document, the path and the value, util::set writes where util::at
\* reads, loses nothing else that could be kept, and fails for no other reason.
THEOREM SetIsWhereAtReads == UtilSpec => []SetLands
<1>1. UtilInit => UtilInv /\ RewriteInv /\ SetInv
  <2>1. UtilInit => SetInv
    BY DEF UtilInit, SetInv, SetLands
  <2> QED
    BY <2>1, UtilInitially, RewriteInitially
<1>2. UtilInv /\ RewriteInv /\ SetInv /\ [UtilNext]_utilVars => UtilInv' /\ RewriteInv' /\ SetInv'
  BY UtilKept, RewriteKept, SetKept
<1>3. SetInv => SetLands
  BY DEF SetInv
<1> QED
  BY <1>1, <1>2, <1>3, PTL DEF UtilSpec
=============================================================================
