-------------------------- MODULE HttpParserProofs --------------------------
(***************************************************************************)
(* Proofs about HttpParser.tla, for any streams and any largest size_t:    *)
(* the requests handed over are those of the stream, and nothing complete  *)
(* or malformed is left waiting, however the stream is cut into reads.     *)
(***************************************************************************)
EXTENDS HttpParser, SequenceTheorems, TLAPS, WellFoundedInduction

-----------------------------------------------------------------------------
(* The inductive invariant, part by part.                                  *)

(* The request that is being parsed: where it starts, and what of it was   *)
(* taken out of the buffer.                                                *)
Start == IF got = <<>> THEN 1 ELSE got[Len(got)].end + 1
Taken == received - Len(buf)
Used == SubSeq(stream, Start, Taken)

(* path_ is the name of a unit, or still empty.                            *)
Paths == STRING \cup {""}

Positions ==
  /\ stream \in Seq(Units)
  /\ received \in 0..Len(stream)
  /\ Start \in 1..(Taken + 1)
  /\ buf \in Seq(Units) /\ Len(buf) <= received
  /\ buf = SubSeq(stream, Taken + 1, received)
  /\ got \in Seq([path : Paths, body : Seq(Units), end : Nat])

ParserTypes ==
  /\ pc \in {"idle", "parse"}
  /\ state_ \in {"ExpectRequestLine", "ExpectHeaders", "ExpectBody", "GotAll", "Error"}
  /\ path_ \in Paths /\ body_ \in Seq(Units)
  /\ expectedBodyLength_ \in Nat

(* s ends behind a line.                                                   *)
Cut(s) == s = <<>> \/ Len(s) - 1 \in CRLFs(s)

(* The headers h are what the header lines of s say.                       *)
Known(s, h) ==
  /\ DOMAIN h = {fieldOf(TextOf(s, l)) : l \in HeaderLines(s)}
  /\ \A l \in HeaderLines(s) : h[fieldOf(TextOf(s, l))] = valueOf(TextOf(s, l))

(* What was taken is well formed, and the members are what it says.        *)
ReadingHeaders(s, path, h) ==
  /\ s # <<>> /\ Cut(s) /\ s[1] = RequestLine(path)
  /\ ~Malformed(s) /\ Blank(s) = {}
  /\ Known(s, h)
ReadingBody(s, path, length) ==
  /\ s # <<>> /\ s[1] = RequestLine(path)
  /\ ~Malformed(s)
  /\ \E b \in FirstBlank(s) : b[1] + 1 = Len(s)
  /\ length = BodyLength(s)

Progress ==
  /\ state_ = "ExpectRequestLine" => Used = <<>> /\ headers_ = <<>> /\ body_ = <<>>
  /\ state_ = "ExpectHeaders" => ReadingHeaders(Used, path_, headers_) /\ body_ = <<>>
  /\ state_ = "ExpectBody" => ReadingBody(Used, path_, expectedBodyLength_)
  /\ state_ = "GotAll" => IsRequest(Used, path_, body_)
  /\ state_ = "Error" => Malformed(Rest)

(* onMessage() returns only when more has to be read, or on an error.      *)
Waiting ==
  pc = "idle" =>
    /\ state_ # "GotAll"
    /\ state_ \in {"ExpectRequestLine", "ExpectHeaders"} => findCRLF(buf) = 0
    /\ state_ = "ExpectBody" => Len(buf) < expectedBodyLength_

ParserInv == Positions /\ ParserTypes /\ Progress /\ Waiting /\ RequestsAsSent

-----------------------------------------------------------------------------
(* Parts of a sequence, under a name that the provers do not open.         *)
Part(s, a, b) == SubSeq(s, a, b)

LEMMA PartType ==
  ASSUME NEW S, NEW s \in Seq(S), NEW a \in Nat, NEW b \in Nat,
         1 <= a, a <= b + 1, b <= Len(s)
  PROVE  Part(s, a, b) \in Seq(S)
<1>1. \A i \in a..b : s[i] \in S
  OBVIOUS
<1> QED BY <1>1, SubSeqProperties DEF Part

LEMMA PartLen ==
  ASSUME NEW S, NEW s \in Seq(S), NEW a \in Nat, NEW b \in Nat,
         1 <= a, a <= b + 1, b <= Len(s)
  PROVE  Len(Part(s, a, b)) = b - a + 1
BY SubSeqProperties DEF Part

LEMMA PartAt ==
  ASSUME NEW S, NEW s \in Seq(S), NEW a \in Nat, NEW b \in Nat,
         1 <= a, a <= b + 1, b <= Len(s), NEW i \in 1..(b - a + 1)
  PROVE  Part(s, a, b)[i] = s[a + i - 1]
BY SubSeqProperties DEF Part

LEMMA PartOfPart ==
  ASSUME NEW S, NEW s \in Seq(S), NEW a \in Nat, NEW b \in Nat, NEW c \in Nat, NEW d \in Nat,
         1 <= a, a <= b + 1, b <= Len(s), 1 <= c, c <= d + 1, d <= b - a + 1
  PROVE  Part(Part(s, a, b), c, d) = Part(s, a + c - 1, a + d - 1)
<1>1. PICK m \in Seq(S) : m = Part(s, a, b)
  BY PartType
<1>2. d <= Len(m)
  BY <1>1, PartLen
<1>3. PICK u \in Seq(S) : u = Part(m, c, d)
  BY <1>2, PartType
<1>4. Len(u) = d - c + 1
  BY <1>2, <1>3, PartLen
<1>5. PICK x \in Nat, y \in Nat : x = a + c - 1 /\ y = a + d - 1
  OBVIOUS
<1>6. 1 <= x /\ x <= y + 1 /\ y <= Len(s) /\ y - x + 1 = d - c + 1
  BY <1>5
<1>7. PICK v \in Seq(S) : v = Part(s, x, y)
  BY <1>6, PartType
<1>8. Len(v) = d - c + 1
  BY <1>6, <1>7, PartLen
<1>9. ASSUME NEW i \in 1..(d - c + 1) PROVE u[i] = v[i]
  <2>1. PICK j \in Nat : j = c + i - 1
    OBVIOUS
  <2>2. j \in 1..(b - a + 1) /\ a + j - 1 = x + i - 1 /\ i \in 1..(y - x + 1)
    BY <1>5, <1>6, <2>1
  <2>3. u[i] = m[j]
    BY <1>2, <1>3, <2>1, PartAt
  <2>4. m[j] = s[a + j - 1]
    BY <1>1, <2>2, PartAt
  <2>5. v[i] = s[x + i - 1]
    BY <1>6, <1>7, <2>2, PartAt
  <2> QED BY <2>2, <2>3, <2>4, <2>5
<1>10. u = v
  BY <1>4, <1>8, <1>9, SeqEqual
<1> QED BY <1>1, <1>3, <1>5, <1>7, <1>10

-----------------------------------------------------------------------------
(* The lines of a sequence.                                                *)

LEMMA LeastNatural ==
  ASSUME NEW T, T \subseteq Nat, T # {}
  PROVE  \E x \in T : \A y \in T : x <= y
<1>1. PICK x \in T : \A y \in T : ~(<<y, x>> \in OpToRel(<, Nat))
  BY NatLessThanWellFounded, WFMin, Zenon
<1>2. x \in Nat /\ \A y \in T : y \in Nat /\ ~(y < x)
  BY <1>1 DEF OpToRel
<1>3. \A y \in T : x <= y
  BY <1>2
<1> QED BY <1>3

LEMMA FirstIsLeast ==
  ASSUME NEW T, T \subseteq Nat, T # {}
  PROVE  First(T) \in T /\ \A y \in T : First(T) <= y
BY LeastNatural DEF First

LEMMA FirstIs ==
  ASSUME NEW T, T \subseteq Nat, NEW x \in T, \A y \in T : x <= y
  PROVE  First(T) = x
<1>1. First(T) \in T /\ \A y \in T : First(T) <= y
  BY FirstIsLeast
<1>2. First(T) \in Nat /\ x \in Nat /\ First(T) <= x /\ x <= First(T)
  BY <1>1
<1> QED BY <1>2

LEMMA CRLFType ==
  ASSUME NEW S, NEW s \in Seq(S)
  PROVE  /\ CRLFs(s) \subseteq Nat
         /\ \A i \in CRLFs(s) : 1 <= i /\ i < Len(s) /\ i + 1 \notin CRLFs(s)
<1>1. CR # LF
  BY DEF CR, LF, Unit
<1> QED BY <1>1 DEF CRLFs

(* A line of s starts at the beginning or behind a CRLF, and ends at the   *)
(* first CRLF from there.                                                  *)
StartsAt(s, f) == f = 1 \/ \E j \in CRLFs(s) : f = j + 2
IsLine(s, f, e) ==
  /\ StartsAt(s, f)
  /\ e \in CRLFs(s) /\ f <= e
  /\ \A i \in CRLFs(s) : f <= i => e <= i

LEMMA LinesAre ==
  ASSUME NEW S, NEW s \in Seq(S)
  PROVE  /\ \A f, e : IsLine(s, f, e) => <<f, e>> \in LinesOf(s)
         /\ \A l \in LinesOf(s) : l = <<l[1], l[2]>> /\ IsLine(s, l[1], l[2])
         /\ \A l \in LinesOf(s) : l[1] \in Nat /\ l[2] \in Nat /\ 1 <= l[1]
<1> DEFINE Ends(from) == {i \in CRLFs(s) : i >= from}
           Froms == {i \in {1} \cup {j + 2 : j \in CRLFs(s)} : Ends(i) # {}}
<1>1. LinesOf(s) = {<<from, First(Ends(from))>> : from \in Froms}
  BY DEF LinesOf
<1>2. \A i : Ends(i) \subseteq Nat
  BY CRLFType
<1>3. ASSUME NEW f, NEW e, IsLine(s, f, e) PROVE <<f, e>> \in LinesOf(s)
  <2>1. f \in Nat /\ e \in Nat
    BY <1>3, CRLFType DEF IsLine, StartsAt
  <2>2. e \in Ends(f) /\ \A i \in Ends(f) : e <= i
    BY <1>3, <2>1, CRLFType DEF IsLine
  <2>3. First(Ends(f)) = e
    <3> HIDE DEF Ends
    <3> QED BY <1>2, <2>2, FirstIs
  <2>4. f \in Froms
    BY <1>3, <2>2 DEF IsLine, StartsAt
  <2> QED BY <1>1, <2>3, <2>4
<1>4. ASSUME NEW f \in Froms
      PROVE  /\ f \in Nat /\ 1 <= f /\ First(Ends(f)) \in Nat
             /\ IsLine(s, f, First(Ends(f)))
  <2>1. f \in Nat /\ 1 <= f /\ StartsAt(s, f)
    BY <1>4, CRLFType DEF StartsAt
  <2>2. First(Ends(f)) \in Ends(f) /\ \A i \in Ends(f) : First(Ends(f)) <= i
    <3>1. Ends(f) # {}
      BY <1>4
    <3> HIDE DEF Ends
    <3> QED BY <1>2, <3>1, FirstIsLeast
  <2> DEFINE e == First(Ends(f))
  <2>3. e \in CRLFs(s) /\ e >= f
    BY <2>2
  <2>4. \A i \in CRLFs(s) : f <= i => e <= i
    BY <2>1, <2>2, CRLFType
  <2>5. e \in Nat
    BY <2>3, CRLFType
  <2> HIDE DEF e
  <2> QED BY <2>1, <2>3, <2>4, <2>5 DEF e, IsLine
<1>5. ASSUME NEW l \in LinesOf(s)
      PROVE  /\ l = <<l[1], l[2]>> /\ IsLine(s, l[1], l[2])
             /\ l[1] \in Nat /\ l[2] \in Nat /\ 1 <= l[1]
  <2>1. PICK f \in Froms : l = <<f, First(Ends(f))>>
    BY <1>1, <1>5, Zenon
  <2> HIDE DEF Ends, Froms
  <2> QED BY <1>4, <2>1
<1> QED BY <1>3, <1>5

(* What is known of a line.                                                *)
LEMMA LineFacts ==
  ASSUME NEW S, NEW s \in Seq(S), NEW l \in LinesOf(s)
  PROVE  /\ l = <<l[1], l[2]>> /\ l[1] \in Nat /\ l[2] \in Nat /\ Len(s) \in Nat
         /\ 1 <= l[1] /\ l[1] <= l[2] /\ l[2] < Len(s) /\ l[2] \in CRLFs(s)
         /\ \A i \in CRLFs(s) : l[1] <= i => l[2] <= i
         /\ l[1] = 1 \/ \E j \in CRLFs(s) : l[1] = j + 2
BY LinesAre, CRLFType DEF IsLine, StartsAt

-----------------------------------------------------------------------------
(* A longer sequence.                                                      *)
Longer(s, t) == Len(s) <= Len(t) /\ \A i \in 1..Len(s) : t[i] = s[i]

LEMMA LongerPart ==
  ASSUME NEW S, NEW s \in Seq(S), NEW t \in Seq(S), Longer(s, t),
         NEW a \in Nat, NEW b \in Nat, 1 <= a, a <= b + 1, b <= Len(s)
  PROVE  Part(t, a, b) = Part(s, a, b)
<1>1. b <= Len(t)
  BY DEF Longer
<1>2. PICK u \in Seq(S) : u = Part(s, a, b)
  BY PartType
<1>3. PICK v \in Seq(S) : v = Part(t, a, b)
  BY <1>1, PartType
<1>4. Len(u) = b - a + 1
  BY <1>2, PartLen
<1>5. Len(v) = b - a + 1
  BY <1>1, <1>3, PartLen
<1>6. ASSUME NEW i \in 1..(b - a + 1) PROVE u[i] = v[i]
  <2>1. a + i - 1 \in 1..Len(s)
    OBVIOUS
  <2>2. u[i] = s[a + i - 1]
    BY <1>2, PartAt
  <2>3. v[i] = t[a + i - 1]
    BY <1>1, <1>3, PartAt
  <2> QED BY <2>1, <2>2, <2>3 DEF Longer
<1>7. u = v
  BY <1>4, <1>5, <1>6, SeqEqual
<1> QED BY <1>2, <1>3, <1>7

LEMMA LongerCRLFs ==
  ASSUME NEW S, NEW s \in Seq(S), NEW t \in Seq(S), Longer(s, t)
  PROVE  /\ CRLFs(s) \subseteq CRLFs(t)
         /\ \A i \in CRLFs(t) : i \in CRLFs(s) \/ Len(s) <= i
<1>1. Len(s) \in Nat /\ Len(t) \in Nat /\ Len(s) <= Len(t)
  BY DEF Longer
<1>2. ASSUME NEW i \in 1..(Len(s) - 1) PROVE t[i] = s[i] /\ t[i + 1] = s[i + 1]
  <2>1. i \in 1..Len(s) /\ i + 1 \in 1..Len(s)
    BY <1>1
  <2> QED BY <2>1 DEF Longer
<1>3. ASSUME NEW i \in CRLFs(s) PROVE i \in CRLFs(t)
  <2>1. i \in 1..(Len(s) - 1) /\ s[i] = CR /\ s[i + 1] = LF
    BY DEF CRLFs
  <2>2. i \in 1..(Len(t) - 1)
    BY <1>1, <2>1
  <2> QED BY <1>2, <2>1, <2>2 DEF CRLFs
<1>4. ASSUME NEW i \in CRLFs(t), ~(Len(s) <= i) PROVE i \in CRLFs(s)
  <2>1. i \in 1..(Len(t) - 1) /\ t[i] = CR /\ t[i + 1] = LF
    BY DEF CRLFs
  <2>2. i \in 1..(Len(s) - 1)
    BY <1>1, <1>4, <2>1
  <2> QED BY <1>2, <2>1, <2>2 DEF CRLFs
<1> QED BY <1>3, <1>4

LEMMA LongerLines ==
  ASSUME NEW S, NEW s \in Seq(S), NEW t \in Seq(S), Longer(s, t)
  PROVE  /\ LinesOf(s) \subseteq LinesOf(t)
         /\ \A l \in LinesOf(t) : l[2] < Len(s) => l \in LinesOf(s)
         /\ \A l \in LinesOf(s) : TextOf(t, l) = TextOf(s, l)
<1>1. ASSUME NEW l \in LinesOf(s) PROVE l \in LinesOf(t)
  <2>1. IsLine(t, l[1], l[2])
    BY LineFacts, LongerCRLFs, CRLFType DEF IsLine, StartsAt
  <2> QED BY <2>1, LineFacts, LinesAre
<1>2. ASSUME NEW l \in LinesOf(t), l[2] < Len(s) PROVE l \in LinesOf(s)
  <2>1. /\ l = <<l[1], l[2]>> /\ l[1] \in Nat /\ l[2] \in Nat /\ Len(s) \in Nat
        /\ l[1] <= l[2] /\ l[2] \in CRLFs(t)
        /\ \A i \in CRLFs(t) : l[1] <= i => l[2] <= i
        /\ l[1] = 1 \/ \E j \in CRLFs(t) : l[1] = j + 2
    BY LineFacts
  <2>2. l[2] \in CRLFs(s) /\ \A i \in CRLFs(s) : l[1] <= i => l[2] <= i
    BY <1>2, <2>1, LongerCRLFs
  <2>3. StartsAt(s, l[1])
    BY <1>2, <2>1, LongerCRLFs, CRLFType DEF StartsAt
  <2> QED BY <2>1, <2>2, <2>3, LinesAre DEF IsLine
<1>3. ASSUME NEW l \in LinesOf(s) PROVE TextOf(t, l) = TextOf(s, l)
  <2>1. /\ l[1] \in Nat /\ l[2] \in Nat /\ Len(s) \in Nat /\ Len(t) \in Nat
        /\ 1 <= l[1] /\ l[1] <= l[2] /\ l[2] < Len(s) /\ Len(s) <= Len(t)
    BY LineFacts DEF Longer
  <2> DEFINE a == l[1]
             b == l[2] - 1
  <2>2. a \in Nat /\ b \in Nat /\ 1 <= a /\ a <= b + 1 /\ b <= Len(s)
    BY <2>1
  <2> HIDE DEF a, b
  <2>3. Part(t, a, b) = Part(s, a, b)
    BY <2>2, LongerPart
  <2> QED BY <2>3 DEF TextOf, Part, a, b
<1> QED BY <1>1, <1>2, <1>3

LEMMA CutEnds ==
  ASSUME NEW S, NEW s \in Seq(S), NEW t \in Seq(S), Longer(s, t), Cut(s)
  PROVE  /\ s # <<>> => Len(s) - 1 \in CRLFs(t)
         /\ Len(s) \notin CRLFs(t)
<1>1. Len(s) \in Nat /\ \A i \in CRLFs(t) : i \in Nat /\ 1 <= i /\ i + 1 \notin CRLFs(t)
  BY CRLFType
<1>2. s # <<>> => Len(s) - 1 \in CRLFs(t)
  BY LongerCRLFs DEF Cut
<1>3. s # <<>> => (Len(s) - 1) + 1 \notin CRLFs(t)
  BY <1>1, <1>2
<1>4. (Len(s) - 1) + 1 = Len(s) /\ (s = <<>> => Len(s) = 0)
  BY <1>1
<1> QED BY <1>1, <1>2, <1>3, <1>4

(* Nothing but an unfinished line follows.                                 *)
LEMMA NoNewLine ==
  ASSUME NEW S, NEW s \in Seq(S), NEW t \in Seq(S), Longer(s, t), Cut(s),
         \A i \in CRLFs(t) : i <= Len(s)
  PROVE  LinesOf(t) = LinesOf(s)
<1> SUFFICES ASSUME NEW l \in LinesOf(t) PROVE l[2] < Len(s)
  BY LongerLines
<1>1. l[2] \in CRLFs(t) /\ l[2] \in Nat /\ Len(s) \in Nat /\ 1 <= l[2]
  BY LineFacts
<1> QED BY <1>1, CutEnds

(* One line more.                                                          *)
LEMMA NewLine ==
  ASSUME NEW S, NEW s \in Seq(S), NEW t \in Seq(S), Longer(s, t), Cut(s),
         NEW e \in CRLFs(t), Len(s) < e, e = Len(t) - 1,
         \A i \in CRLFs(t) : i <= Len(s) \/ e <= i
  PROVE  /\ LinesOf(t) = LinesOf(s) \cup {<<Len(s) + 1, e>>}
         /\ Cut(t)
<1>1. /\ Len(s) \in Nat /\ Len(t) \in Nat /\ e \in Nat /\ 1 <= e
      /\ \A i \in CRLFs(t) : i \in Nat /\ 1 <= i /\ i < Len(t) /\ i + 1 \notin CRLFs(t)
  BY CRLFType
<1>2. (s # <<>> => Len(s) - 1 \in CRLFs(t)) /\ Len(s) \notin CRLFs(t)
  BY CutEnds
<1>3. IsLine(t, Len(s) + 1, e)
  <2>1. StartsAt(t, Len(s) + 1)
    BY <1>1, <1>2 DEF StartsAt
  <2> QED BY <1>1, <2>1 DEF IsLine
<1>4. <<Len(s) + 1, e>> \in LinesOf(t)
  BY <1>3, LinesAre
<1>5. ASSUME NEW l \in LinesOf(t), ~(l[2] < Len(s)) PROVE l = <<Len(s) + 1, e>>
  <2>1. /\ l = <<l[1], l[2]>> /\ l[1] \in Nat /\ l[2] \in Nat /\ l[1] <= l[2]
        /\ l[2] \in CRLFs(t)
        /\ \A i \in CRLFs(t) : l[1] <= i => l[2] <= i
        /\ l[1] = 1 \/ \E j \in CRLFs(t) : l[1] = j + 2
        /\ 1 <= l[1]
    BY LineFacts
  <2>2. l[2] = e
    BY <1>1, <1>2, <1>5, <2>1
  <2>3. s # <<>> => Len(s) - 1 < l[1]
    BY <1>1, <1>2, <2>1, <2>2
  <2>4. l[1] <= Len(s) + 1
    <3>1. CASE l[1] = 1
      BY <1>1, <3>1
    <3>2. CASE l[1] # 1
      <4>1. PICK j \in CRLFs(t) : l[1] = j + 2
        BY <2>1, <3>2
      <4>2. j \in Nat /\ j + 2 <= e
        <5>1. l[1] <= e
          BY <2>1, <2>2
        <5> QED BY <1>1, <4>1, <5>1
      <4>3. j <= Len(s) /\ j # Len(s)
        BY <1>1, <1>2, <4>2
      <4> QED BY <1>1, <4>1, <4>2, <4>3
    <3> QED BY <3>1, <3>2
  <2>5. l[1] # Len(s)
    <3> SUFFICES ASSUME l[1] = Len(s) PROVE FALSE
      OBVIOUS
    <3>1. s # <<>>
      BY <2>1
    <3>2. Len(s) - 1 \in CRLFs(t) /\ 1 <= Len(s) - 1
      BY <1>1, <1>2, <3>1
    <3>3. PICK j \in CRLFs(t) : l[1] = j + 2
      BY <1>1, <2>1, <3>2
    <3>4. j + 1 = Len(s) - 1
      BY <1>1, <3>3
    <3> QED BY <1>1, <3>2, <3>4
  <2>6. l[1] = Len(s) + 1
    <3>1. CASE s = <<>>
      BY <2>1, <2>4, <3>1
    <3>2. CASE s # <<>>
      BY <1>1, <2>1, <2>3, <2>4, <2>5, <3>2
    <3> QED BY <3>1, <3>2
  <2> QED BY <2>1, <2>2, <2>6
<1>6. LinesOf(t) = LinesOf(s) \cup {<<Len(s) + 1, e>>}
  BY <1>4, <1>5, LongerLines, SMTT(30)
<1> QED BY <1>6 DEF Cut

-----------------------------------------------------------------------------
(* The head of a request.                                                  *)

(* What the definitions over a stream depend on: its lines and their text. *)
LEMMA LineSets ==
  ASSUME NEW S, NEW s \in Seq(S)
  PROVE  /\ Blank(s) \subseteq LinesOf(s) /\ HeaderLines(s) \subseteq LinesOf(s)
         /\ FirstBlank(s) \subseteq Blank(s)
BY DEF Blank, HeaderLines, FirstBlank

(* A malformed head stays one.                                             *)
LEMMA LongerHead ==
  ASSUME NEW S, NEW s \in Seq(S), NEW t \in Seq(S), Longer(s, t)
  PROVE  Blank(s) \subseteq Blank(t) /\ HeaderLines(s) \subseteq HeaderLines(t)
<1>1. Blank(s) \subseteq Blank(t)
  BY LongerLines DEF Blank
<1>2. ASSUME NEW l \in HeaderLines(s), NEW b \in Blank(t) PROVE l[1] < b[1]
  <2>1. l \in LinesOf(s) /\ b \in LinesOf(t) /\ b[1] = b[2]
    BY <1>2 DEF HeaderLines, Blank
  <2>2. /\ l[1] \in Nat /\ l[2] \in Nat /\ Len(s) \in Nat /\ b[1] \in Nat
        /\ l[1] <= l[2] /\ l[2] < Len(s)
    BY <2>1, LineFacts
  <2>3. CASE b[2] < Len(s)
    <3>1. b \in Blank(s)
      BY <2>1, <2>3, LongerLines DEF Blank
    <3> QED BY <1>2, <3>1 DEF HeaderLines
  <2>4. CASE ~(b[2] < Len(s))
    BY <2>1, <2>2, <2>4
  <2> QED BY <2>3, <2>4
<1>3. HeaderLines(s) \subseteq HeaderLines(t)
  <2> SUFFICES ASSUME NEW l \in HeaderLines(s) PROVE l \in HeaderLines(t)
    OBVIOUS
  <2>1. l \in LinesOf(t) /\ l[1] > 1
    BY LongerLines DEF HeaderLines
  <2> QED BY <1>2, <2>1 DEF HeaderLines
<1> QED BY <1>1, <1>3

(* What is said of the header lines.                                       *)
BadHeader(s, H) == \E l \in H : ~validHeader(TextOf(s, l))
Twice(s, H) ==
  \E l, k \in H :
    l # k /\ validHeader(TextOf(s, l)) /\ validHeader(TextOf(s, k))
      /\ fieldOf(TextOf(s, l)) = fieldOf(TextOf(s, k))
BadStart(s) == \E l \in LinesOf(s) : l[1] = 1 /\ ~processRequestLine(TextOf(s, l))
BadFraming(s) ==
  /\ Blank(s) # {}
  /\ HasField(s, "transfer-encoding") \/ \E n \in Lengths(s) : n \notin 0..SizeMax

LEMMA MalformedIs ==
  ASSUME NEW s
  PROVE  Malformed(s) <=>
           BadStart(s) \/ BadHeader(s, HeaderLines(s)) \/ Twice(s, HeaderLines(s)) \/ BadFraming(s)
BY DEF Malformed, BadStart, BadHeader, Twice, BadFraming

LEMMA LengthsAre ==
  ASSUME NEW s
  PROVE  \A n : n \in Lengths(s) <=>
           \E l \in HeaderLines(s) : /\ validHeader(TextOf(s, l))
                                     /\ fieldOf(TextOf(s, l)) = "content-length"
                                     /\ n = valueOf(TextOf(s, l))
BY DEF Lengths

LEMMA MalformedStays ==
  ASSUME NEW S, NEW s \in Seq(S), NEW t \in Seq(S), Longer(s, t), Malformed(s)
  PROVE  Malformed(t)
<1>1. /\ HeaderLines(s) \subseteq LinesOf(s) /\ HeaderLines(s) \subseteq HeaderLines(t)
      /\ Blank(s) \subseteq Blank(t) /\ LinesOf(s) \subseteq LinesOf(t)
      /\ \A l \in LinesOf(s) : TextOf(t, l) = TextOf(s, l)
  BY LongerHead, LongerLines, LineSets
<1>2. BadStart(s) => BadStart(t)
  BY <1>1 DEF BadStart
<1>3. BadHeader(s, HeaderLines(s)) => BadHeader(t, HeaderLines(t))
  BY <1>1 DEF BadHeader
<1>4. Twice(s, HeaderLines(s)) => Twice(t, HeaderLines(t))
  BY <1>1 DEF Twice
<1>5. Lengths(s) \subseteq Lengths(t)
  BY <1>1, LengthsAre
<1>6. HasField(s, "transfer-encoding") => HasField(t, "transfer-encoding")
  BY <1>1 DEF HasField
<1>7. BadFraming(s) => BadFraming(t)
  BY <1>1, <1>5, <1>6 DEF BadFraming
<1> QED BY <1>2, <1>3, <1>4, <1>7, MalformedIs

(* What agrees on the lines of the head agrees on all of this.             *)
LEMMA SameHead ==
  ASSUME NEW s, NEW t,
         HeaderLines(t) = HeaderLines(s), BadStart(t) <=> BadStart(s),
         \A l \in HeaderLines(s) : TextOf(t, l) = TextOf(s, l)
  PROVE  /\ Lengths(t) = Lengths(s) /\ BodyLength(t) = BodyLength(s)
         /\ HasField(t, "transfer-encoding") <=> HasField(s, "transfer-encoding")
         /\ (Blank(t) # {} <=> Blank(s) # {}) => (Malformed(t) <=> Malformed(s))
<1>1. Lengths(t) = Lengths(s)
  <2>1. \A n : n \in Lengths(t) <=> n \in Lengths(s)
    BY LengthsAre
  <2> QED BY <2>1
<1>2. HasField(t, "transfer-encoding") <=> HasField(s, "transfer-encoding")
  BY DEF HasField
<1>3. /\ BadHeader(t, HeaderLines(t)) <=> BadHeader(s, HeaderLines(s))
      /\ Twice(t, HeaderLines(t)) <=> Twice(s, HeaderLines(s))
  BY DEF BadHeader, Twice
<1>4. (Blank(t) # {} <=> Blank(s) # {}) => (BadFraming(t) <=> BadFraming(s))
  BY <1>1, <1>2 DEF BadFraming
<1> QED BY <1>1, <1>2, <1>3, <1>4, MalformedIs DEF BodyLength

(* What follows the blank line does not change the head.                   *)
LEMMA BodyFollows ==
  ASSUME NEW S, NEW s \in Seq(S), NEW t \in Seq(S), Longer(s, t), Blank(s) # {}
  PROVE  /\ Malformed(t) <=> Malformed(s)
         /\ BodyLength(t) = BodyLength(s)
         /\ FirstBlank(t) = FirstBlank(s)
<1>1. PICK b \in Blank(s) : TRUE
  OBVIOUS
<1>2. /\ b \in LinesOf(s) /\ b[1] = b[2] /\ b \in Blank(t) /\ b \in LinesOf(t)
      /\ b[1] \in Nat /\ 1 <= b[1] /\ b[2] < Len(s) /\ b[2] \in CRLFs(t) /\ Len(s) \in Nat
  <2>1. b \in LinesOf(s) /\ b[1] = b[2] /\ b \in Blank(t) /\ b \in LinesOf(t)
    BY LongerHead DEF Blank
  <2> QED BY <2>1, LineFacts
<1>3. ASSUME NEW l \in LinesOf(t), l[1] <= b[1] PROVE l \in LinesOf(s)
  <2>1. l[1] \in Nat /\ l[2] \in Nat /\ l[2] <= b[2]
    BY <1>2, <1>3, LineFacts
  <2>2. l[2] < Len(s)
    BY <1>2, <2>1
  <2> QED BY <2>2, LongerLines
<1>4. HeaderLines(t) = HeaderLines(s)
  <2> SUFFICES ASSUME NEW l \in HeaderLines(t) PROVE l \in HeaderLines(s)
    BY LongerHead
  <2>1. l \in LinesOf(t) /\ l[1] > 1 /\ \A k \in Blank(t) : l[1] < k[1]
    BY DEF HeaderLines
  <2>2. l[1] \in Nat
    BY <2>1, LineFacts
  <2>3. l \in LinesOf(s)
    BY <1>2, <1>3, <2>1, <2>2
  <2> QED BY <2>1, <2>3, LongerHead DEF HeaderLines
<1>5. BadStart(t) <=> BadStart(s)
  <2>1. \A l \in LinesOf(t) : l[1] = 1 => l \in LinesOf(s)
    BY <1>2, <1>3
  <2> QED BY <2>1, LongerLines DEF BadStart
<1>6. \A l \in HeaderLines(s) : TextOf(t, l) = TextOf(s, l)
  BY LongerLines, LineSets
<1>7. FirstBlank(t) = FirstBlank(s)
  <2>1. ASSUME NEW l \in FirstBlank(t) PROVE l \in FirstBlank(s)
    <3>1. l \in Blank(t) /\ l \in LinesOf(t) /\ l[1] = l[2] /\ \A k \in Blank(t) : l[1] <= k[1]
      BY DEF FirstBlank, Blank
    <3>2. l \in Blank(s)
      BY <1>2, <1>3, <3>1 DEF Blank
    <3> QED BY <3>1, <3>2, LongerHead DEF FirstBlank
  <2>2. ASSUME NEW l \in FirstBlank(s), NEW k \in Blank(t) PROVE l[1] <= k[1]
    <3>1. l \in Blank(s) /\ l \in LinesOf(s) /\ l[1] <= b[1] /\ k \in LinesOf(t) /\ k[1] = k[2]
      BY <1>1, <2>2 DEF FirstBlank, Blank
    <3>2. l[1] \in Nat /\ k[1] \in Nat
      BY <3>1, LineFacts
    <3>3. CASE k[1] <= b[1]
      <4>1. k \in Blank(s)
        BY <1>3, <3>1, <3>3 DEF Blank
      <4> QED BY <2>2, <4>1 DEF FirstBlank
    <3>4. CASE ~(k[1] <= b[1])
      BY <1>2, <3>1, <3>2, <3>4
    <3> QED BY <3>3, <3>4
  <2>3. ASSUME NEW l \in FirstBlank(s) PROVE l \in FirstBlank(t)
    <3>1. l \in Blank(t)
      BY <2>3, LongerHead, LineSets
    <3> QED BY <2>2, <3>1 DEF FirstBlank
  <2> QED BY <2>1, <2>3
<1>8. Blank(t) # {}
  BY <1>2
<1> QED BY <1>4, <1>5, <1>6, <1>7, <1>8, SameHead

-----------------------------------------------------------------------------
LEMMA Above ==
  ASSUME NEW n \in Nat, NEW i \in Nat, i > n
  PROVE  \E k \in Nat : 1 <= k /\ n + k = i
<1>1. i - n \in Nat /\ 1 <= i - n /\ n + (i - n) = i
  OBVIOUS
<1> QED BY <1>1

(* What was taken, p, and behind it what is still in the buffer, b.        *)
Joined(p, b, q) ==
  /\ Len(q) = Len(p) + Len(b)
  /\ \A i \in 1..Len(p) : q[i] = p[i]
  /\ \A i \in 1..Len(b) : q[Len(p) + i] = b[i]

LEMMA JoinedLonger ==
  ASSUME NEW S, NEW p \in Seq(S), NEW b \in Seq(S), NEW q \in Seq(S), Joined(p, b, q)
  PROVE  Longer(p, q)
BY DEF Joined, Longer

LEMMA JoinedParts ==
  ASSUME NEW S, NEW x \in Seq(S), NEW a \in Nat, NEW m \in Nat, NEW z \in Nat,
         1 <= a, a <= m + 1, m <= z, z <= Len(x),
         NEW k \in Nat, k = m + 1,
         NEW p \in Seq(S), p = Part(x, a, m),
         NEW b \in Seq(S), b = Part(x, k, z),
         NEW q \in Seq(S), q = Part(x, a, z)
  PROVE  Joined(p, b, q)
<1>1. m <= Len(x) /\ a <= z + 1 /\ 1 <= k /\ k <= z + 1
  OBVIOUS
<1>2. Len(p) = m - a + 1
  BY <1>1, PartLen
<1>3. Len(b) = z - k + 1
  BY <1>1, PartLen
<1>4. Len(q) = z - a + 1
  BY <1>1, PartLen
<1>5. ASSUME NEW i \in 1..Len(p) PROVE q[i] = p[i]
  <2>1. i \in 1..(m - a + 1) /\ i \in 1..(z - a + 1)
    BY <1>2
  <2>2. q[i] = x[a + i - 1]
    BY <1>1, <2>1, PartAt
  <2>3. p[i] = x[a + i - 1]
    BY <1>1, <2>1, PartAt
  <2> QED BY <2>2, <2>3
<1>6. ASSUME NEW i \in 1..Len(b) PROVE q[Len(p) + i] = b[i]
  <2>1. PICK j \in Nat : j = Len(p) + i
    OBVIOUS
  <2>2. i \in 1..(z - k + 1) /\ j \in 1..(z - a + 1) /\ a + j - 1 = k + i - 1
    BY <1>2, <1>3, <2>1
  <2>3. q[j] = x[a + j - 1]
    BY <1>1, <2>2, PartAt
  <2>4. b[i] = x[k + i - 1]
    BY <1>1, <2>2, PartAt
  <2> QED BY <2>1, <2>2, <2>3, <2>4
<1>7. Len(q) = Len(p) + Len(b)
  <2>1. PICK n \in Nat, o \in Nat, r \in Nat : n = Len(p) /\ o = Len(b) /\ r = Len(q)
    OBVIOUS
  <2>2. n = m - a + 1 /\ o = z - k + 1 /\ r = z - a + 1
    BY <1>2, <1>3, <1>4, <2>1
  <2>3. r = n + o
    BY <2>2
  <2> QED BY <2>1, <2>3
<1> QED BY <1>5, <1>6, <1>7 DEF Joined

(* A CRLF behind the first part is one of the second part.                 *)
LEMMA CRLFsBehind ==
  ASSUME NEW S, NEW p \in Seq(S), NEW b \in Seq(S), NEW q \in Seq(S), Joined(p, b, q),
         NEW i \in Nat, 1 <= i
  PROVE  Len(p) + i \in CRLFs(q) <=> i \in CRLFs(b)
<1>1. PICK n \in Nat : n = Len(p)
  OBVIOUS
<1>2. n + i \in 1..(Len(q) - 1) <=> i \in 1..(Len(b) - 1)
  BY <1>1 DEF Joined
<1>3. ASSUME i \in 1..(Len(b) - 1)
      PROVE  q[n + i] = b[i] /\ q[(n + i) + 1] = b[i + 1]
  <2>1. i + 1 \in 1..Len(b) /\ i \in 1..Len(b) /\ (n + i) + 1 = n + (i + 1)
    BY <1>3
  <2> QED BY <1>1, <2>1 DEF Joined
<1> QED BY <1>1, <1>2, <1>3 DEF CRLFs

LEMMA FoundCRLF ==
  ASSUME NEW S, NEW b \in Seq(S)
  PROVE  /\ findCRLF(b) = 0 => CRLFs(b) = {}
         /\ findCRLF(b) # 0 => /\ findCRLF(b) \in CRLFs(b)
                               /\ \A i \in CRLFs(b) : findCRLF(b) <= i
                               /\ findCRLF(b) \in Nat /\ 1 <= findCRLF(b)
                               /\ findCRLF(b) < Len(b)
<1>1. CRLFs(b) \subseteq Nat /\ \A i \in CRLFs(b) : 1 <= i /\ i < Len(b)
  BY CRLFType
<1>2. CRLFs(b) # {} =>
        First(CRLFs(b)) \in CRLFs(b) /\ \A i \in CRLFs(b) : First(CRLFs(b)) <= i
  BY <1>1, FirstIsLeast
<1> QED BY <1>1, <1>2 DEF findCRLF

(* No line is complete in the buffer.                                      *)
LEMMA NoLineFound ==
  ASSUME NEW S, NEW p \in Seq(S), NEW b \in Seq(S), NEW q \in Seq(S), Joined(p, b, q),
         Cut(p), findCRLF(b) = 0
  PROVE  LinesOf(q) = LinesOf(p)
<1>1. CRLFs(b) = {}
  BY FoundCRLF
<1>2. Longer(p, q)
  BY JoinedLonger
<1>3. ASSUME NEW i \in CRLFs(q) PROVE i <= Len(p)
  <2>1. i \in Nat
    BY CRLFType
  <2> SUFFICES ASSUME i > Len(p) PROVE FALSE
    BY <2>1
  <2>2. PICK k \in Nat : 1 <= k /\ Len(p) + k = i
    <3>1. PICK n \in Nat : n = Len(p)
      OBVIOUS
    <3>2. \E k \in Nat : 1 <= k /\ n + k = i
      BY <2>1, <3>1, Above
    <3> QED BY <3>1, <3>2
  <2> QED BY <1>1, <2>2, CRLFsBehind
<1> QED BY <1>2, <1>3, NoNewLine

(* The first line in the buffer becomes the last line of what is taken, t. *)
LEMMA LineFound ==
  ASSUME NEW S, NEW p \in Seq(S), NEW b \in Seq(S), NEW q \in Seq(S), Joined(p, b, q),
         Cut(p), NEW f \in Nat, f # 0, f = findCRLF(b),
         NEW t \in Seq(S), Len(t) = Len(p) + f + 1, Longer(p, t), Longer(t, q)
  PROVE  LinesOf(t) = LinesOf(p) \cup {<<Len(p) + 1, Len(p) + f>>} /\ Cut(t)
<1>1. /\ f \in CRLFs(b) /\ \A i \in CRLFs(b) : f <= i
      /\ 1 <= f /\ f < Len(b)
  BY FoundCRLF
<1>2. PICK e \in Nat : e = Len(p) + f
  OBVIOUS
<1>3. e \in CRLFs(q)
  BY <1>1, <1>2, CRLFsBehind
<1>4. e < Len(t) /\ e = Len(t) - 1 /\ Len(p) < e
  BY <1>1, <1>2
<1>5. e \in CRLFs(t)
  BY <1>3, <1>4, LongerCRLFs
<1>6. ASSUME NEW i \in CRLFs(t) PROVE i <= Len(p) \/ e <= i
  <2>1. i \in Nat /\ i \in CRLFs(q)
    BY CRLFType, LongerCRLFs
  <2> SUFFICES ASSUME i > Len(p) PROVE e <= i
    BY <2>1
  <2>2. PICK k \in Nat : 1 <= k /\ Len(p) + k = i
    <3>1. PICK n \in Nat : n = Len(p)
      OBVIOUS
    <3>2. PICK h \in Nat : h = i
      BY <2>1
    <3>3. h > n
      BY <3>1, <3>2
    <3>4. \E k \in Nat : 1 <= k /\ n + k = h
      BY <3>3, Above
    <3> QED BY <3>1, <3>2, <3>4
  <2>3. k \in CRLFs(b)
    BY <2>1, <2>2, CRLFsBehind
  <2>4. f <= k
    BY <1>1, <2>3
  <2> QED BY <1>2, <2>2, <2>4
<1>7. LinesOf(t) = LinesOf(p) \cup {<<Len(p) + 1, e>>} /\ Cut(t)
  BY <1>4, <1>5, <1>6, NewLine, SMTT(30)
<1> QED BY <1>2, <1>7

(* What is taken from the front of the buffer is the end of what was taken. *)
LEMMA TakenText ==
  ASSUME NEW S, NEW p \in Seq(S), NEW b \in Seq(S), NEW q \in Seq(S), Joined(p, b, q),
         NEW g \in Nat, g <= Len(b),
         NEW t \in Seq(S), Longer(t, q),
         NEW c \in Nat, NEW d \in Nat, c = Len(p) + 1, d = Len(p) + g, d <= Len(t)
  PROVE  Part(t, c, d) = Part(b, 1, g)
<1>1. PICK o \in Nat : o = 1
  OBVIOUS
<1>2. /\ 1 <= c /\ c <= d + 1 /\ d - c + 1 = g
      /\ 1 <= o /\ o <= g + 1 /\ g - o + 1 = g
  BY <1>1
<1>3. PICK u \in Seq(S) : u = Part(t, c, d)
  BY <1>2, PartType
<1>4. PICK v \in Seq(S) : v = Part(b, o, g)
  BY <1>2, PartType
<1>5. Len(u) = g
  BY <1>2, <1>3, PartLen
<1>6. Len(v) = g
  BY <1>2, <1>4, PartLen
<1>7. ASSUME NEW i \in 1..g PROVE u[i] = v[i]
  <2>1. PICK j \in Nat : j = c + i - 1
    <3>1. c + i - 1 \in Nat
      BY <1>2
    <3> QED BY <3>1
  <2>2. /\ i \in 1..(d - c + 1) /\ i \in 1..(g - o + 1) /\ o + i - 1 = i
        /\ j \in 1..Len(t) /\ j = Len(p) + i /\ i \in 1..Len(b)
    BY <1>1, <1>2, <2>1
  <2>3. u[i] = t[c + i - 1]
    <3>1. PICK h \in 1..(d - c + 1) : h = i
      BY <2>2
    <3>2. Part(t, c, d)[h] = t[c + h - 1]
      BY <1>2, PartAt
    <3> QED BY <1>3, <3>1, <3>2
  <2>4. v[i] = b[o + i - 1]
    <3>1. PICK h \in 1..(g - o + 1) : h = i
      BY <2>2
    <3>2. Part(b, o, g)[h] = b[o + h - 1]
      BY <1>2, PartAt
    <3> QED BY <1>4, <3>1, <3>2
  <2>5. t[j] = q[j]
    BY <2>2 DEF Longer
  <2>6. q[j] = b[i]
    BY <2>2 DEF Joined
  <2> QED BY <2>1, <2>2, <2>3, <2>4, <2>5, <2>6
<1>8. u = v
  BY <1>5, <1>6, <1>7, SeqEqual
<1> QED BY <1>1, <1>3, <1>4, <1>8

(* The text of the new line is what the parser takes for the line.         *)
LEMMA LineText ==
  ASSUME NEW S, NEW p \in Seq(S), NEW b \in Seq(S), NEW q \in Seq(S), Joined(p, b, q),
         NEW f \in Nat, 1 <= f, f < Len(b),
         NEW t \in Seq(S), Len(t) = Len(p) + f + 1, Longer(t, q)
  PROVE  TextOf(t, <<Len(p) + 1, Len(p) + f>>) = SubSeq(b, 1, f - 1)
<1>1. PICK c \in Nat, d \in Nat, g \in Nat :
        c = Len(p) + 1 /\ d = Len(p) + f - 1 /\ g = f - 1
  <2>1. Len(p) + 1 \in Nat /\ Len(p) + f - 1 \in Nat /\ f - 1 \in Nat
    OBVIOUS
  <2> QED BY <2>1
<1>2. g <= Len(b) /\ d = Len(p) + g /\ d <= Len(t)
  BY <1>1
<1>3. Part(t, c, d) = Part(b, 1, g)
  <2>1. c = Len(p) + 1
    BY <1>1
  <2> QED BY <1>2, <2>1, TakenText
<1> QED BY <1>1, <1>3 DEF TextOf, Part

-----------------------------------------------------------------------------
(* A line is added to what was taken.                                      *)
OneMore(s, t, n) ==
  LinesOf(t) = LinesOf(s) \cup {n} /\ n[1] = Len(s) + 1 /\ n[1] \in Nat /\ n[2] \in Nat

LEMMA NewLineIsLast ==
  ASSUME NEW S, NEW s \in Seq(S), NEW t, NEW n, OneMore(s, t, n)
  PROVE  \A l \in LinesOf(s) : l[1] \in Nat /\ 1 <= l[1] /\ l[1] < n[1]
<1> SUFFICES ASSUME NEW l \in LinesOf(s) PROVE l[1] \in Nat /\ 1 <= l[1] /\ l[1] < n[1]
  OBVIOUS
<1>1. /\ l[1] \in Nat /\ l[2] \in Nat /\ 1 <= l[1] /\ l[1] <= l[2] /\ l[2] < Len(s)
      /\ Len(s) \in Nat
  BY LineFacts
<1> QED BY <1>1 DEF OneMore

(* A line that is not blank belongs to the head.                           *)
LEMMA HeaderAdded ==
  ASSUME NEW S, NEW s \in Seq(S), NEW t \in Seq(S), Longer(s, t), NEW n, OneMore(s, t, n),
         s # <<>>, Blank(s) = {}, n[1] # n[2]
  PROVE  /\ Blank(t) = {} /\ HeaderLines(t) = HeaderLines(s) \cup {n}
         /\ n \notin HeaderLines(s)
         /\ BadStart(t) <=> BadStart(s)
<1>1. /\ LinesOf(t) = LinesOf(s) \cup {n} /\ n[1] \in Nat /\ n[1] > 1
      /\ \A l \in LinesOf(s) : l[1] < n[1]
  BY NewLineIsLast DEF OneMore
<1>2. Blank(t) = {}
  BY <1>1 DEF Blank
<1>3. HeaderLines(t) = HeaderLines(s) \cup {n}
  BY <1>1, <1>2 DEF HeaderLines
<1>4. n \notin HeaderLines(s)
  BY <1>1 DEF HeaderLines
<1>5. BadStart(t) <=> BadStart(s)
  BY <1>1, LongerLines DEF BadStart
<1> QED BY <1>2, <1>3, <1>4, <1>5

(* The blank line ends it.                                                 *)
LEMMA BlankAdded ==
  ASSUME NEW S, NEW s \in Seq(S), NEW t \in Seq(S), Longer(s, t), NEW n, OneMore(s, t, n),
         s # <<>>, Blank(s) = {}, n[1] = n[2]
  PROVE  /\ Blank(t) = {n} /\ FirstBlank(t) = {n}
         /\ HeaderLines(t) = HeaderLines(s)
         /\ BadStart(t) <=> BadStart(s)
<1>1. /\ LinesOf(t) = LinesOf(s) \cup {n} /\ n[1] \in Nat /\ n[1] > 1
      /\ \A l \in LinesOf(s) : l[1] \in Nat /\ l[1] < n[1]
  BY NewLineIsLast DEF OneMore
<1>2. Blank(t) = {n}
  BY <1>1 DEF Blank
<1>3. FirstBlank(t) = {n}
  BY <1>1, <1>2 DEF FirstBlank
<1>4. HeaderLines(t) = HeaderLines(s)
  BY <1>1, <1>2 DEF HeaderLines
<1>5. BadStart(t) <=> BadStart(s)
  BY <1>1, LongerLines DEF BadStart
<1> QED BY <1>2, <1>3, <1>4, <1>5

LEMMA NoLines ==
  LinesOf(<<>>) = {}
<1>1. <<>> \in Seq({})
  OBVIOUS
<1>2. CRLFs(<<>>) = {}
  BY DEF CRLFs
<1> SUFFICES ASSUME NEW l \in LinesOf(<<>>) PROVE FALSE
  OBVIOUS
<1> QED BY <1>1, <1>2, LineFacts

(* The first line is the request line.                                     *)
LEMMA FirstLineAdded ==
  ASSUME NEW t, NEW n, OneMore(<<>>, t, n)
  PROVE  /\ HeaderLines(t) = {}
         /\ n[1] # n[2] => Blank(t) = {}
         /\ BadStart(t) <=> ~processRequestLine(TextOf(t, n))
<1>1. LinesOf(t) = {n} /\ n[1] = 1
  BY NoLines DEF OneMore
<1> QED BY <1>1 DEF HeaderLines, Blank, BadStart

-----------------------------------------------------------------------------
(* The stream, the buffer and what was taken.                              *)

LEMMA PartLonger ==
  ASSUME NEW S, NEW x \in Seq(S), NEW a \in Nat, NEW m \in Nat, NEW z \in Nat,
         1 <= a, a <= m + 1, m <= z, z <= Len(x),
         NEW p \in Seq(S), p = Part(x, a, m),
         NEW q \in Seq(S), q = Part(x, a, z)
  PROVE  Longer(p, q)
<1>1. PICK k \in Nat : k = m + 1
  OBVIOUS
<1>2. 1 <= k /\ k <= z + 1
  BY <1>1
<1>3. PICK b \in Seq(S) : b = Part(x, k, z)
  BY <1>2, PartType
<1>4. Joined(p, b, q)
  BY <1>1, <1>3, JoinedParts
<1> QED BY <1>4, JoinedLonger

(* The positions in the stream.                                            *)
At(x, a, m, z) ==
  /\ x = stream /\ a = Start /\ m = Taken /\ z = received
  /\ 1 <= a /\ a <= m + 1 /\ m <= z /\ z <= Len(x) /\ Len(buf) = z - m
  /\ Used = Part(x, a, m) /\ buf = Part(x, m + 1, z) /\ Rest = Part(x, a, z)

LEMMA PositionsAt ==
  ASSUME Positions
  PROVE  \E x \in Seq(Units), a \in Nat, m \in Nat, z \in Nat : At(x, a, m, z)
<1>1. /\ stream \in Seq(Units) /\ received \in Nat /\ received <= Len(stream)
      /\ buf \in Seq(Units) /\ Len(buf) \in Nat /\ Len(buf) <= received
      /\ Start \in 1..(Taken + 1)
  BY DEF Positions
<1>2. PICK n \in Nat : n = Len(buf)
  BY <1>1
<1>3. Taken = received - n /\ n <= received
  BY <1>1, <1>2 DEF Taken
<1>4. Taken \in Nat /\ Taken <= received /\ n = received - Taken
  BY <1>1, <1>3
<1>5. Start \in Nat /\ 1 <= Start /\ Start <= Taken + 1
  BY <1>1, <1>4
<1>6. /\ Used = Part(stream, Start, Taken) /\ buf = Part(stream, Taken + 1, received)
      /\ Rest = Part(stream, Start, received)
  BY DEF Positions, Used, Rest, Start, Part
<1>7. At(stream, Start, Taken, received)
  BY <1>1, <1>2, <1>4, <1>5, <1>6 DEF At
<1> QED BY <1>1, <1>4, <1>5, <1>7

LEMMA RestJoined ==
  ASSUME Positions
  PROVE  /\ Used \in Seq(Units) /\ buf \in Seq(Units) /\ Rest \in Seq(Units)
         /\ Joined(Used, buf, Rest)
<1>1. PICK x \in Seq(Units), a \in Nat, m \in Nat, z \in Nat : At(x, a, m, z)
  BY PositionsAt
<1>2. 1 <= a /\ a <= m + 1 /\ m <= z /\ z <= Len(x) /\ m <= Len(x) /\ a <= z + 1
  BY <1>1 DEF At
<1>3. Used = Part(x, a, m) /\ buf = Part(x, m + 1, z) /\ Rest = Part(x, a, z)
  BY <1>1 DEF At
<1>4. PICK k \in Nat : k = m + 1
  OBVIOUS
<1>5. 1 <= k /\ k <= z + 1 /\ buf = Part(x, k, z)
  BY <1>2, <1>3, <1>4
<1>6. PICK p \in Seq(Units) : p = Part(x, a, m)
  BY <1>2, PartType
<1>7. PICK b \in Seq(Units) : b = Part(x, k, z)
  BY <1>2, <1>5, PartType
<1>8. PICK q \in Seq(Units) : q = Part(x, a, z)
  BY <1>2, PartType
<1>9. Joined(p, b, q)
  BY <1>2, <1>4, <1>6, <1>7, <1>8, JoinedParts
<1> QED BY <1>3, <1>5, <1>6, <1>7, <1>8, <1>9

(* What will have been taken when k more units are.                        *)
LEMMA TakenMore ==
  ASSUME Positions, NEW k \in Nat, k <= Len(buf)
  PROVE  \E t \in Seq(Units) :
           /\ t = SubSeq(stream, Start, Taken + k)
           /\ Len(t) = Len(Used) + k /\ Longer(Used, t) /\ Longer(t, Rest)
<1>1. PICK x \in Seq(Units), a \in Nat, m \in Nat, z \in Nat : At(x, a, m, z)
  BY PositionsAt
<1>2. PICK y \in Nat : y = m + k
  OBVIOUS
<1>3. Len(buf) = z - m
  BY <1>1 DEF At
<1>4. 1 <= a /\ a <= m + 1 /\ m <= z /\ z <= Len(x)
  BY <1>1 DEF At
<1>5. /\ m <= Len(x) /\ a <= z + 1
      /\ m <= y /\ y <= z /\ a <= y + 1 /\ y <= Len(x)
  BY <1>2, <1>3, <1>4
<1>6. PICK p \in Seq(Units) : p = Part(x, a, m)
  BY <1>4, <1>5, PartType
<1>7. PICK t \in Seq(Units) : t = Part(x, a, y)
  BY <1>4, <1>5, PartType
<1>8. PICK q \in Seq(Units) : q = Part(x, a, z)
  BY <1>4, <1>5, PartType
<1>9. Longer(p, t)
  BY <1>4, <1>5, <1>6, <1>7, PartLonger
<1>10. Longer(t, q)
  BY <1>4, <1>5, <1>7, <1>8, PartLonger
<1>11. Len(p) = m - a + 1
  BY <1>4, <1>5, <1>6, PartLen
<1>12. Len(t) = y - a + 1
  BY <1>4, <1>5, <1>7, PartLen
<1>13. Len(t) = Len(p) + k
  BY <1>2, <1>11, <1>12
<1>14. Used = p /\ Rest = q /\ SubSeq(stream, Start, Taken + k) = t
  BY <1>1, <1>2, <1>6, <1>7, <1>8 DEF At, Part
<1> QED BY <1>9, <1>10, <1>13, <1>14

(* k units are retrieved from the buffer.                                  *)
LEMMA Retrieved ==
  ASSUME Positions, NEW k \in Nat, k <= Len(buf),
         buf' = SubSeq(buf, k + 1, Len(buf)), UNCHANGED <<stream, received, got>>
  PROVE  /\ Positions' /\ Rest' = Rest
         /\ Used' = SubSeq(stream, Start, Taken + k)
<1>1. PICK x \in Seq(Units), a \in Nat, m \in Nat, z \in Nat : At(x, a, m, z)
  BY PositionsAt
<1>2. PICK y \in Nat : y = m + k
  OBVIOUS
<1>3. Len(buf) = z - m
  BY <1>1 DEF At
<1>4. 1 <= a /\ a <= m + 1 /\ m <= z /\ z <= Len(x)
  BY <1>1 DEF At
<1>5. PICK g \in Nat, h \in Nat, c \in Nat : g = m + 1 /\ h = y + 1 /\ c = k + 1
  OBVIOUS
<1>6. PICK d \in Nat : d = z - m
  BY <1>4
<1>7. /\ 1 <= g /\ g <= z + 1 /\ 1 <= c /\ c <= d + 1 /\ d <= z - g + 1
      /\ g + c - 1 = h /\ g + d - 1 = z /\ 1 <= h /\ h <= z + 1 /\ y <= z /\ z - h + 1 = z - y
  BY <1>2, <1>3, <1>4, <1>5, <1>6
<1>8. Part(Part(x, g, z), c, d) = Part(x, g + c - 1, g + d - 1)
  BY <1>4, <1>7, PartOfPart
<1>9. buf = Part(x, g, z)
  BY <1>1, <1>5 DEF At
<1>10. buf' = Part(x, h, z)
  <2>1. buf' = Part(buf, c, d)
    BY <1>3, <1>5, <1>6 DEF Part
  <2> QED BY <1>7, <1>8, <1>9, <2>1
<1>11. PICK b \in Seq(Units) : b = Part(x, h, z)
  BY <1>4, <1>7, PartType
<1>12. Len(b) = z - h + 1
  BY <1>4, <1>7, <1>11, PartLen, ZenonT(30)
<1>13. Start' = Start /\ Rest' = Rest /\ stream' = x /\ received' = z /\ got' = got
  BY <1>1 DEF At, Start, Rest
<1>14. buf' = b /\ Len(b) = z - y
  BY <1>7, <1>10, <1>11, <1>12
<1>15. Taken' = y
  <2>1. Taken' = z - Len(b)
    BY <1>13, <1>14 DEF Taken
  <2>2. z - Len(b) = y
    BY <1>7, <1>14
  <2> QED BY <2>1, <2>2
<1>16. Used' = SubSeq(stream, Start, Taken + k)
  BY <1>1, <1>2, <1>13, <1>15 DEF Used, At
<1>17. Positions'
  <2>1. stream' \in Seq(Units) /\ received' \in 0..Len(stream')
    BY <1>4, <1>13
  <2>2. Start' \in 1..(Taken' + 1)
    <3>1. a \in 1..(y + 1)
      BY <1>2, <1>4
    <3> QED BY <1>1, <1>13, <1>15, <3>1 DEF At
  <2>3. buf' \in Seq(Units) /\ Len(buf') <= received'
    BY <1>7, <1>13, <1>14
  <2>4. buf' = SubSeq(stream', Taken' + 1, received')
    BY <1>5, <1>10, <1>13, <1>15 DEF Part
  <2>5. got' \in Seq([path : Paths, body : Seq(Units), end : Nat])
    BY <1>13 DEF Positions
  <2> QED BY <2>1, <2>2, <2>3, <2>4, <2>5 DEF Positions
<1> QED BY <1>13, <1>16, <1>17

(* t is what will have been taken when the line n of the buffer is.        *)
TakesLine(t, n) ==
  /\ Longer(Used, t) /\ Longer(t, Rest)
  /\ OneMore(Used, t, n) /\ Cut(t) /\ n[2] + 1 = Len(t)
  /\ TextOf(t, n) = Line
  /\ Line = <<>> <=> n[1] = n[2]

LEMMA LineTaken ==
  ASSUME Positions, Cut(Used), findCRLF(buf) # 0
  PROVE  \E t \in Seq(Units) : \E n :
           TakesLine(t, n) /\ t = SubSeq(stream, Start, Taken + (findCRLF(buf) + 1))
<1>1. PICK p \in Seq(Units), b \in Seq(Units), q \in Seq(Units) :
        p = Used /\ b = buf /\ q = Rest /\ Joined(p, b, q)
  BY RestJoined
<1>2. findCRLF(b) \in Nat /\ 1 <= findCRLF(b) /\ findCRLF(b) < Len(b)
  BY <1>1, FoundCRLF
<1>3. PICK f \in Nat : f = findCRLF(b)
  BY <1>2
<1>4. 1 <= f /\ f < Len(b) /\ f # 0
  BY <1>2, <1>3
<1>5. PICK k \in Nat : k = f + 1
  OBVIOUS
<1>6. k <= Len(buf)
  BY <1>1, <1>4, <1>5
<1>7. PICK t \in Seq(Units) :
        /\ t = SubSeq(stream, Start, Taken + k)
        /\ Len(t) = Len(Used) + k /\ Longer(Used, t) /\ Longer(t, Rest)
  BY <1>6, TakenMore
<1>8. Longer(p, t) /\ Longer(t, q)
  BY <1>1, <1>7
<1>9. Len(t) = Len(p) + f + 1
  BY <1>1, <1>5, <1>7
<1>10. LinesOf(t) = LinesOf(p) \cup {<<Len(p) + 1, Len(p) + f>>} /\ Cut(t)
  <2>1. Cut(p)
    BY <1>1
  <2> QED BY <1>1, <1>3, <1>4, <1>8, <1>9, <2>1, LineFound
<1>11. TextOf(t, <<Len(p) + 1, Len(p) + f>>) = SubSeq(b, 1, f - 1)
  BY <1>1, <1>4, <1>8, <1>9, LineText
<1>12. PICK n : n = <<Len(p) + 1, Len(p) + f>>
  OBVIOUS
<1>13. n[1] = Len(p) + 1 /\ n[2] = Len(p) + f /\ n[1] \in Nat /\ n[2] \in Nat
  BY <1>12
<1>14. OneMore(Used, t, n)
  BY <1>1, <1>10, <1>12, <1>13 DEF OneMore
<1>15. TextOf(t, n) = Line
  BY <1>1, <1>3, <1>11, <1>12 DEF Line
<1>16. n[2] + 1 = Len(t)
  BY <1>9, <1>13
<1>17. Line = <<>> <=> n[1] = n[2]
  <2>1. PICK o \in Nat, g \in Nat : o = 1 /\ g = f - 1
    <3>1. 1 \in Nat /\ f - 1 \in Nat
      BY <1>4
    <3> QED BY <3>1
  <2>2. 1 <= o /\ o <= g + 1 /\ g <= Len(b) /\ g - o + 1 = f - 1
    BY <1>4, <2>1
  <2>3. PICK v \in Seq(Units) : v = Part(b, o, g)
    BY <2>2, PartType
  <2>4. Len(v) = g - o + 1
    BY <2>2, <2>3, PartLen
  <2>5. v = Line
    BY <1>1, <1>3, <2>1, <2>3 DEF Part, Line
  <2>6. Len(v) = f - 1
    BY <2>2, <2>4
  <2>7. v = <<>> <=> f = 1
    BY <1>4, <2>6
  <2> QED BY <1>13, <2>5, <2>7
<1>18. TakesLine(t, n)
  BY <1>7, <1>10, <1>14, <1>15, <1>16, <1>17 DEF TakesLine
<1> QED BY <1>1, <1>3, <1>5, <1>7, <1>18

LEMMA LineRetrieved ==
  ASSUME Positions, findCRLF(buf) # 0,
         buf' = AfterLine, UNCHANGED <<stream, received, got>>
  PROVE  /\ Positions' /\ Rest' = Rest
         /\ Used' = SubSeq(stream, Start, Taken + (findCRLF(buf) + 1))
<1>1. PICK b \in Seq(Units) : b = buf
  BY DEF Positions
<1>2. findCRLF(b) \in Nat /\ 1 <= findCRLF(b) /\ findCRLF(b) < Len(b)
  BY <1>1, FoundCRLF
<1>3. PICK f \in Nat : f = findCRLF(b)
  BY <1>2
<1>4. PICK k \in Nat : k = f + 1
  OBVIOUS
<1>5. k <= Len(b) /\ k + 1 = f + 2
  BY <1>2, <1>3, <1>4
<1>6. k <= Len(buf) /\ buf' = SubSeq(buf, k + 1, Len(buf))
  BY <1>1, <1>3, <1>5 DEF AfterLine
<1>7. Positions' /\ Rest' = Rest /\ Used' = SubSeq(stream, Start, Taken + k)
  BY <1>6, Retrieved
<1> QED BY <1>1, <1>3, <1>4, <1>7

-----------------------------------------------------------------------------
(* A line changes what the definitions over a stream say.                  *)

LEMMA Rejected ==
  ASSUME Positions, NEW t \in Seq(Units), Longer(t, Rest), Malformed(t)
  PROVE  Malformed(Rest)
<1>1. PICK q \in Seq(Units) : q = Rest
  BY RestJoined
<1>2. Longer(t, q)
  BY <1>1
<1>3. Malformed(q)
  BY <1>2, MalformedStays
<1> QED BY <1>1, <1>3

LEMMA FirstUnit ==
  ASSUME NEW S, NEW t \in Seq(S), NEW n, n[1] = 1, NEW e \in Nat, n[2] = e, e + 1 = Len(t),
         Len(TextOf(t, n)) = 1
  PROVE  TextOf(t, n)[1] = t[1] /\ t # <<>> /\ e # 1 /\ t[1] \in S
<1>1. PICK o \in Nat, g \in Int : o = 1 /\ g = e - 1
  OBVIOUS
<1>2. TextOf(t, n) = SubSeq(t, o, g)
  BY <1>1 DEF TextOf
<1>3. e # 0
  <2> SUFFICES ASSUME e = 0 PROVE FALSE
    OBVIOUS
  <2>1. o = 1 /\ g = -1
    BY <1>1
  <2>2. Len(SubSeq(t, o, g)) = 0
    BY <2>1, SubSeqProperties
  <2> QED BY <1>2, <2>2
<1>4. g \in Nat /\ 1 <= o /\ o <= g + 1 /\ g <= Len(t) /\ g - o + 1 = e - 1
  BY <1>1, <1>3
<1>5. Len(Part(t, o, g)) = g - o + 1
  BY <1>4, PartLen
<1>6. e - 1 = 1
  BY <1>2, <1>4, <1>5 DEF Part
<1>7. PICK i \in 1..(g - o + 1) : i = 1
  BY <1>4, <1>6
<1>8. Part(t, o, g)[i] = t[o + i - 1]
  BY <1>4, PartAt
<1>9. TextOf(t, n)[1] = t[1]
  BY <1>1, <1>2, <1>7, <1>8 DEF Part
<1> QED BY <1>6, <1>9, SMTT(30)

LEMMA RequestUnit ==
  ASSUME NEW u \in Units, u.kind = "request"
  PROVE  u = RequestLine(u.name) /\ u.name \in Paths
<1>1. u \notin [kind : {"header"}, name : STRING, value : Nat \cup {NotDigits}]
  OBVIOUS
<1>2. Text.kind # "request" /\ CR.kind # "request" /\ LF.kind # "request"
  BY DEF Text, CR, LF, Unit
<1>3. u \notin {Text, CR, LF}
  BY <1>2
<1>4. u \in [kind : {"request"}, name : STRING, value : {NotDigits}]
  BY <1>1, <1>3 DEF Units
<1> QED BY <1>4 DEF RequestLine, Unit, Paths

(* The request line.                                                       *)
LEMMA RequestLineTaken ==
  ASSUME NEW t \in Seq(Units), NEW n, OneMore(<<>>, t, n), n[2] + 1 = Len(t), Cut(t),
         processRequestLine(TextOf(t, n))
  PROVE  /\ ReadingHeaders(t, TextOf(t, n)[1].name, <<>>)
         /\ TextOf(t, n)[1].name \in Paths
<1>1. n[1] = 1 /\ n[2] \in Nat
  BY DEF OneMore
<1>2. Len(TextOf(t, n)) = 1 /\ TextOf(t, n)[1].kind = "request"
  BY DEF processRequestLine
<1>3. TextOf(t, n)[1] = t[1] /\ t # <<>> /\ n[2] # 1 /\ t[1] \in Units
  BY <1>1, <1>2, FirstUnit
<1>4. t[1] = RequestLine(t[1].name) /\ t[1].name \in Paths
  BY <1>2, <1>3, RequestUnit
<1>5. HeaderLines(t) = {} /\ Blank(t) = {} /\ ~BadStart(t)
  BY <1>1, <1>3, FirstLineAdded
<1>6. ~Malformed(t)
  BY <1>5, MalformedIs DEF BadHeader, Twice, BadFraming
<1>7. Known(t, <<>>)
  BY <1>5 DEF Known
<1> QED BY <1>3, <1>4, <1>5, <1>6, <1>7 DEF ReadingHeaders

LEMMA RequestLineRefused ==
  ASSUME NEW t, NEW n, OneMore(<<>>, t, n), ~processRequestLine(TextOf(t, n))
  PROVE  Malformed(t)
BY FirstLineAdded, MalformedIs

(* A header line that is accepted, or refused.                             *)
LEMMA HeaderTaken ==
  ASSUME NEW s \in Seq(Units), NEW t \in Seq(Units), Longer(s, t), NEW n, OneMore(s, t, n),
         NEW path, NEW h, ReadingHeaders(s, path, h), Cut(t), n[1] # n[2],
         validHeader(TextOf(t, n)), fieldOf(TextOf(t, n)) \notin DOMAIN h
  PROVE  ReadingHeaders(t, path, emplace(h, fieldOf(TextOf(t, n)), valueOf(TextOf(t, n))))
<1> DEFINE F(l) == fieldOf(TextOf(t, l))
           V(l) == valueOf(TextOf(t, l))
           H == HeaderLines(s)
           g == emplace(h, F(n), V(n))
<1>1. /\ s # <<>> /\ s[1] = RequestLine(path) /\ ~Malformed(s) /\ Blank(s) = {}
      /\ Known(s, h)
  BY DEF ReadingHeaders
<1>2. /\ Blank(t) = {} /\ HeaderLines(t) = H \cup {n} /\ n \notin H
      /\ BadStart(t) <=> BadStart(s)
  BY <1>1, HeaderAdded
<1>3. \A l \in H : TextOf(t, l) = TextOf(s, l)
  BY LongerLines, LineSets
<1>4. DOMAIN h = {F(l) : l \in H} /\ \A l \in H : h[F(l)] = V(l)
  BY <1>1, <1>3 DEF Known
<1>5. ~BadStart(t) /\ ~BadHeader(s, H) /\ ~Twice(s, H)
  BY <1>1, <1>2, MalformedIs
<1>6. ~BadHeader(t, HeaderLines(t))
  BY <1>2, <1>3, <1>5 DEF BadHeader
<1>7. \A l \in H : F(l) # F(n)
  BY <1>4
<1>8. ~Twice(t, HeaderLines(t))
  BY <1>2, <1>3, <1>5, <1>7 DEF Twice
<1>9. ~Malformed(t)
  BY <1>2, <1>5, <1>6, <1>8, MalformedIs DEF BadFraming
<1>10. t # <<>> /\ t[1] = s[1]
  BY <1>1 DEF Longer
<1>11. Known(t, g)
  <2>1. DOMAIN g = DOMAIN h \cup {F(n)}
    BY DEF emplace
  <2>2. DOMAIN g = {F(l) : l \in H \cup {n}}
    <3> HIDE DEF g, F, H
    <3> QED BY <1>4, <2>1
  <2>3. ASSUME NEW l \in H \cup {n} PROVE g[F(l)] = V(l)
    <3>1. CASE l = n
      BY <3>1 DEF emplace
    <3>2. CASE l \in H
      <4>1. F(l) \in DOMAIN h /\ F(l) # F(n) /\ h[F(l)] = V(l)
        BY <1>4, <1>7, <3>2
      <4> HIDE DEF F, V
      <4> QED BY <4>1 DEF emplace
    <3> QED BY <3>1, <3>2
  <2> HIDE DEF g
  <2> QED BY <1>2, <2>2, <2>3 DEF Known
<1> HIDE DEF g
<1>12. ReadingHeaders(t, path, g)
  BY <1>1, <1>2, <1>9, <1>10, <1>11 DEF ReadingHeaders
<1> QED BY <1>12 DEF g

LEMMA HeaderRefused ==
  ASSUME NEW s \in Seq(Units), NEW t \in Seq(Units), Longer(s, t), NEW n, OneMore(s, t, n),
         NEW path, NEW h, ReadingHeaders(s, path, h), n[1] # n[2],
         ~(validHeader(TextOf(t, n)) /\ fieldOf(TextOf(t, n)) \notin DOMAIN h)
  PROVE  Malformed(t)
<1>1. s # <<>> /\ ~Malformed(s) /\ Blank(s) = {} /\ Known(s, h)
  BY DEF ReadingHeaders
<1>2. HeaderLines(t) = HeaderLines(s) \cup {n} /\ n \notin HeaderLines(s)
  BY <1>1, HeaderAdded
<1>3. \A l \in HeaderLines(s) : TextOf(t, l) = TextOf(s, l)
  BY LongerLines, LineSets
<1>4. CASE ~validHeader(TextOf(t, n))
  BY <1>2, <1>4, MalformedIs DEF BadHeader
<1>5. CASE validHeader(TextOf(t, n)) /\ fieldOf(TextOf(t, n)) \in DOMAIN h
  <2>1. PICK l \in HeaderLines(s) : fieldOf(TextOf(s, l)) = fieldOf(TextOf(t, n))
    BY <1>1, <1>5 DEF Known
  <2>2. validHeader(TextOf(s, l))
    BY <1>1, MalformedIs DEF BadHeader
  <2>3. l \in HeaderLines(t) /\ n \in HeaderLines(t) /\ l # n
    BY <1>2
  <2>4. Twice(t, HeaderLines(t))
    BY <1>3, <1>5, <2>1, <2>2, <2>3 DEF Twice
  <2> QED BY <2>4, MalformedIs
<1> QED BY <1>4, <1>5

(* The blank line: what the head says of the body is what headers_ says.   *)
LEMMA HeadersSay ==
  ASSUME NEW s \in Seq(Units), NEW h, Known(s, h), ~Malformed(s)
  PROVE  /\ HasField(s, "transfer-encoding") <=> "transfer-encoding" \in DOMAIN h
         /\ "content-length" \in DOMAIN h => Lengths(s) = {h["content-length"]}
         /\ "content-length" \notin DOMAIN h => Lengths(s) = {}
<1>1. \A l \in HeaderLines(s) : validHeader(TextOf(s, l))
  BY MalformedIs DEF BadHeader
<1>2. DOMAIN h = {fieldOf(TextOf(s, l)) : l \in HeaderLines(s)}
  BY DEF Known
<1>3. HasField(s, "transfer-encoding") <=> "transfer-encoding" \in DOMAIN h
  BY <1>1, <1>2 DEF HasField
<1>4. "content-length" \notin DOMAIN h => Lengths(s) = {}
  BY <1>2, LengthsAre
<1>5. ASSUME "content-length" \in DOMAIN h PROVE Lengths(s) = {h["content-length"]}
  <2>1. PICK l \in HeaderLines(s) : fieldOf(TextOf(s, l)) = "content-length"
    BY <1>2, <1>5
  <2>2. h["content-length"] \in Lengths(s)
    <3>1. h["content-length"] = valueOf(TextOf(s, l))
      BY <2>1 DEF Known
    <3> QED BY <1>1, <2>1, <3>1, LengthsAre
  <2>3. \A v \in Lengths(s) : v = h["content-length"]
    BY LengthsAre DEF Known
  <2> QED BY <2>2, <2>3
<1> QED BY <1>3, <1>4, <1>5

LEMMA OneLength ==
  ASSUME NEW t, NEW v, Lengths(t) = {v}
  PROVE  BodyLength(t) = v
<1>1. (CHOOSE w \in Lengths(t) : TRUE) \in Lengths(t)
  OBVIOUS
<1>2. BodyLength(t) = CHOOSE w \in Lengths(t) : TRUE
  BY DEF BodyLength
<1> QED BY <1>1, <1>2

LEMMA BlankTaken ==
  ASSUME NEW s \in Seq(Units), NEW t \in Seq(Units), Longer(s, t), NEW n, OneMore(s, t, n),
         NEW path, NEW h, ReadingHeaders(s, path, h), n[1] = n[2], n[2] + 1 = Len(t)
  PROVE  /\ t # <<>> /\ t[1] = RequestLine(path)
         /\ FirstBlank(t) = {n} /\ n[1] + 1 = Len(t) /\ n[1] \in Nat
         /\ Malformed(t) <=> \/ "transfer-encoding" \in DOMAIN h
                             \/ "content-length" \in DOMAIN h /\ ~parseContentLength(h["content-length"])
         /\ BodyLength(t) = IF "content-length" \in DOMAIN h THEN h["content-length"] ELSE 0
<1>1. /\ s # <<>> /\ s[1] = RequestLine(path) /\ ~Malformed(s) /\ Blank(s) = {}
      /\ Known(s, h)
  BY DEF ReadingHeaders
<1>2. /\ Blank(t) = {n} /\ FirstBlank(t) = {n} /\ HeaderLines(t) = HeaderLines(s)
      /\ BadStart(t) <=> BadStart(s)
  BY <1>1, BlankAdded
<1>3. \A l \in HeaderLines(s) : TextOf(t, l) = TextOf(s, l)
  BY LongerLines, LineSets
<1>4. /\ Lengths(t) = Lengths(s)
      /\ HasField(t, "transfer-encoding") <=> HasField(s, "transfer-encoding")
  BY <1>2, <1>3, SameHead
<1>5. /\ HasField(s, "transfer-encoding") <=> "transfer-encoding" \in DOMAIN h
      /\ "content-length" \in DOMAIN h => Lengths(s) = {h["content-length"]}
      /\ "content-length" \notin DOMAIN h => Lengths(s) = {}
  BY <1>1, HeadersSay
<1>6. t # <<>> /\ t[1] = s[1]
  BY <1>1 DEF Longer
<1>7. ~BadStart(t) /\ ~BadHeader(t, HeaderLines(t)) /\ ~Twice(t, HeaderLines(t))
  BY <1>1, <1>2, <1>3, MalformedIs DEF BadHeader, Twice
<1>8. Malformed(t) <=> BadFraming(t)
  BY <1>7, MalformedIs
<1>9. BadFraming(t) <=>
        \/ "transfer-encoding" \in DOMAIN h
        \/ "content-length" \in DOMAIN h /\ ~parseContentLength(h["content-length"])
  BY <1>2, <1>4, <1>5 DEF BadFraming, parseContentLength
<1>10. BodyLength(t) = IF "content-length" \in DOMAIN h THEN h["content-length"] ELSE 0
  <2>1. CASE "content-length" \in DOMAIN h
    BY <1>4, <1>5, <2>1, OneLength
  <2>2. CASE "content-length" \notin DOMAIN h
    BY <1>4, <1>5, <2>2 DEF BodyLength
  <2> QED BY <2>1, <2>2
<1>11. n[1] + 1 = Len(t) /\ n[1] \in Nat
  BY DEF OneMore
<1> QED BY <1>1, <1>2, <1>6, <1>8, <1>9, <1>10, <1>11

(* The body.                                                               *)
LEMMA FirstBlankIs ==
  ASSUME NEW S, NEW s \in Seq(S), NEW b \in FirstBlank(s), NEW c \in FirstBlank(s)
  PROVE  b[1] = c[1] /\ b[1] \in Nat
<1>1. /\ b \in Blank(s) /\ c \in Blank(s) /\ b[1] <= c[1] /\ c[1] <= b[1]
      /\ b \in LinesOf(s) /\ c \in LinesOf(s)
  BY DEF FirstBlank, Blank
<1>2. b[1] \in Nat /\ c[1] \in Nat
  BY <1>1, LineFacts
<1> QED BY <1>1, <1>2

LEMMA BodyTaken ==
  ASSUME NEW s \in Seq(Units), NEW t \in Seq(Units), Longer(s, t),
         NEW path, NEW length \in Nat, ReadingBody(s, path, length), Len(t) = Len(s) + length
  PROVE  IsRequest(t, path, SubSeq(t, Len(s) + 1, Len(s) + length))
<1>1. s # <<>> /\ s[1] = RequestLine(path) /\ ~Malformed(s) /\ length = BodyLength(s)
  BY DEF ReadingBody
<1>2. PICK b \in FirstBlank(s) : b[1] + 1 = Len(s)
  BY DEF ReadingBody
<1>3. Blank(s) # {}
  BY <1>2, LineSets
<1>4. ~Malformed(t) /\ BodyLength(t) = length /\ FirstBlank(t) = FirstBlank(s)
  BY <1>1, <1>3, BodyFollows
<1>5. t # <<>> /\ t[1] = s[1]
  BY <1>1 DEF Longer
<1>6. PICK k \in Nat, z \in Nat : k = Len(s) + 1 /\ z = Len(s) + length
  OBVIOUS
<1>7. 1 <= k /\ k <= z + 1 /\ z <= Len(t) /\ z - k + 1 = length
  BY <1>6
<1>8. Len(Part(t, k, z)) = z - k + 1
  BY <1>7, PartLen
<1>9. b[1] + 2 = k /\ Len(t) = z
  <2>1. b[1] \in Nat
    BY FirstBlankIs
  <2> QED BY <1>2, <1>6, <2>1
<1>10. IsRequest(t, path, Part(t, k, z))
  <2>1. Part(t, k, z) = SubSeq(t, b[1] + 2, Len(t))
    BY <1>9 DEF Part
  <2>2. Len(Part(t, k, z)) = BodyLength(t)
    BY <1>4, <1>7, <1>8
  <2> QED BY <1>1, <1>2, <1>4, <1>5, <2>1, <2>2 DEF IsRequest
<1> QED BY <1>6, <1>10 DEF Part

-----------------------------------------------------------------------------
(* The actions preserve the invariant.                                     *)

LEMMA SameRequests ==
  ASSUME RequestsAsSent, UNCHANGED <<stream, got>>
  PROVE  RequestsAsSent'
BY DEF RequestsAsSent, StartOf

LEMMA SamePositions ==
  ASSUME Positions, UNCHANGED <<stream, received, buf, got>>
  PROVE  Positions' /\ Used' = Used /\ Rest' = Rest
<1>1. Start' = Start /\ Taken' = Taken
  BY DEF Start, Taken
<1>2. Used' = Used /\ Rest' = Rest
  BY <1>1 DEF Used, Rest
<1> QED BY <1>1, <1>2 DEF Positions

(* parseRequest() reports an error.                                        *)
LEMMA RejectStep ==
  ASSUME NEW rest, Reject(rest), ParserTypes, Malformed(Rest), Rest' = Rest
  PROVE  ParserTypes' /\ Progress' /\ Waiting'
<1>1. state_' = "Error" /\ pc' = "idle"
  BY DEF Reject
<1>2. ParserTypes'
  BY DEF Reject, ParserTypes
<1>3. Progress'
  BY <1>1 DEF Progress
<1>4. Waiting'
  BY <1>1 DEF Waiting
<1> QED BY <1>2, <1>3, <1>4

LEMMA NeedsMoreStep ==
  ASSUME ParserInv, NeedsMore
  PROVE  ParserInv'
<1>1. Positions' /\ Used' = Used /\ Rest' = Rest
  BY SamePositions DEF ParserInv, NeedsMore
<1>2. UNCHANGED <<stream, buf, state_, path_, headers_, body_, expectedBodyLength_, got>> /\ pc' = "idle"
  BY DEF NeedsMore, parserVars
<1>3. ParserTypes'
  BY <1>2 DEF ParserInv, ParserTypes
<1>4. Progress'
  BY <1>1, <1>2 DEF ParserInv, Progress
<1>5. Waiting'
  BY <1>2 DEF NeedsMore, Waiting
<1>6. RequestsAsSent'
  BY <1>2, SameRequests DEF ParserInv
<1> QED BY <1>1, <1>3, <1>4, <1>5, <1>6 DEF ParserInv

LEMMA ParseRequestLineStep ==
  ASSUME ParserInv, ParseRequestLine
  PROVE  ParserInv'
<1>1. /\ pc = "parse" /\ state_ = "ExpectRequestLine" /\ findCRLF(buf) # 0
      /\ UNCHANGED <<stream, received, got>>
  BY DEF ParseRequestLine, AtLine
<1>2. Positions /\ ParserTypes /\ RequestsAsSent
  BY DEF ParserInv
<1>3. Used = <<>> /\ headers_ = <<>> /\ body_ = <<>>
  BY <1>1 DEF ParserInv, Progress
<1>4. PICK t \in Seq(Units) : \E n :
        TakesLine(t, n) /\ t = SubSeq(stream, Start, Taken + (findCRLF(buf) + 1))
  BY <1>1, <1>2, <1>3, LineTaken DEF Cut
<1>5. PICK n : TakesLine(t, n)
  BY <1>4
<1>6. /\ OneMore(<<>>, t, n) /\ n[2] + 1 = Len(t) /\ Cut(t) /\ TextOf(t, n) = Line
      /\ Longer(t, Rest)
  BY <1>3, <1>5 DEF TakesLine
<1>7. RequestsAsSent'
  BY <1>1, <1>2, SameRequests
<1>8. CASE processRequestLine(Line)
  <2>1. /\ path_' = Line[1].name /\ buf' = AfterLine /\ state_' = "ExpectHeaders"
        /\ UNCHANGED <<pc, headers_, body_, expectedBodyLength_>>
    BY <1>8 DEF ParseRequestLine
  <2>2. Positions' /\ Used' = t
    BY <1>1, <1>2, <1>4, <2>1, LineRetrieved
  <2>3. ReadingHeaders(t, Line[1].name, <<>>) /\ Line[1].name \in Paths
    BY <1>6, <1>8, RequestLineTaken
  <2>4. ParserTypes'
    BY <1>2, <2>1, <2>3 DEF ParserTypes
  <2>5. Progress'
    BY <1>3, <2>1, <2>2, <2>3 DEF Progress
  <2>6. Waiting'
    BY <1>1, <2>1 DEF Waiting
  <2> QED BY <1>7, <2>2, <2>4, <2>5, <2>6 DEF ParserInv
<1>9. CASE ~processRequestLine(Line)
  <2>1. Reject(buf) /\ buf' = buf
    BY <1>9 DEF ParseRequestLine, Reject
  <2>2. Positions' /\ Rest' = Rest
    BY <1>1, <1>2, <2>1, SamePositions
  <2>3. Malformed(t)
    BY <1>6, <1>9, RequestLineRefused
  <2>4. Malformed(Rest)
    BY <1>2, <1>6, <2>3, Rejected
  <2>5. ParserTypes' /\ Progress' /\ Waiting'
    BY <1>2, <2>1, <2>2, <2>4, RejectStep
  <2> QED BY <1>7, <2>2, <2>5 DEF ParserInv
<1> QED BY <1>8, <1>9

LEMMA ParseHeaderStep ==
  ASSUME ParserInv, ParseHeader
  PROVE  ParserInv'
<1>1. /\ pc = "parse" /\ state_ = "ExpectHeaders" /\ findCRLF(buf) # 0 /\ Line # <<>>
      /\ UNCHANGED <<stream, received, got>>
  BY DEF ParseHeader, AtLine
<1>2. Positions /\ ParserTypes /\ RequestsAsSent
  BY DEF ParserInv
<1>3. ReadingHeaders(Used, path_, headers_) /\ body_ = <<>>
  BY <1>1 DEF ParserInv, Progress
<1>4. PICK t \in Seq(Units) : \E n :
        TakesLine(t, n) /\ t = SubSeq(stream, Start, Taken + (findCRLF(buf) + 1))
  BY <1>1, <1>2, <1>3, LineTaken DEF ReadingHeaders
<1>5. PICK n : TakesLine(t, n)
  BY <1>4
<1>6. /\ OneMore(Used, t, n) /\ n[1] # n[2] /\ Cut(t) /\ TextOf(t, n) = Line
      /\ Longer(Used, t) /\ Longer(t, Rest) /\ Used \in Seq(Units)
  BY <1>1, <1>2, <1>5, RestJoined DEF TakesLine
<1>7. RequestsAsSent'
  BY <1>1, <1>2, SameRequests
<1>8. CASE validHeader(Line) /\ fieldOf(Line) \notin DOMAIN headers_
  <2>1. /\ headers_' = emplace(headers_, fieldOf(Line), valueOf(Line)) /\ buf' = AfterLine
        /\ UNCHANGED <<pc, state_, path_, body_, expectedBodyLength_>>
    BY <1>8 DEF ParseHeader
  <2>2. Positions' /\ Used' = t
    BY <1>1, <1>2, <1>4, <2>1, LineRetrieved
  <2>3. ReadingHeaders(t, path_, emplace(headers_, fieldOf(Line), valueOf(Line)))
    BY <1>3, <1>6, <1>8, HeaderTaken
  <2>4. ParserTypes'
    BY <1>2, <2>1 DEF ParserTypes
  <2>5. Progress'
    BY <1>1, <1>3, <2>1, <2>2, <2>3 DEF Progress
  <2>6. Waiting'
    BY <1>1, <2>1 DEF Waiting
  <2> QED BY <1>7, <2>2, <2>4, <2>5, <2>6 DEF ParserInv
<1>9. CASE ~(validHeader(Line) /\ fieldOf(Line) \notin DOMAIN headers_)
  <2>1. Reject(buf) /\ buf' = buf
    BY <1>9 DEF ParseHeader, Reject
  <2>2. Positions' /\ Rest' = Rest
    BY <1>1, <1>2, <2>1, SamePositions
  <2>3. Malformed(t)
    BY <1>3, <1>6, <1>9, HeaderRefused
  <2>4. Malformed(Rest)
    BY <1>2, <1>6, <2>3, Rejected
  <2>5. ParserTypes' /\ Progress' /\ Waiting'
    BY <1>2, <2>1, <2>2, <2>4, RejectStep
  <2> QED BY <1>7, <2>2, <2>5 DEF ParserInv
<1> QED BY <1>8, <1>9

LEMMA EndOfHeadersStep ==
  ASSUME ParserInv, EndOfHeaders
  PROVE  ParserInv'
<1>1. /\ pc = "parse" /\ state_ = "ExpectHeaders" /\ findCRLF(buf) # 0 /\ Line = <<>>
      /\ UNCHANGED <<stream, received, got>>
  BY DEF EndOfHeaders, AtLine
<1>2. Positions /\ ParserTypes /\ RequestsAsSent
  BY DEF ParserInv
<1>3. ReadingHeaders(Used, path_, headers_) /\ body_ = <<>>
  BY <1>1 DEF ParserInv, Progress
<1>4. PICK t \in Seq(Units) : \E n :
        TakesLine(t, n) /\ t = SubSeq(stream, Start, Taken + (findCRLF(buf) + 1))
  BY <1>1, <1>2, <1>3, LineTaken DEF ReadingHeaders
<1>5. PICK n : TakesLine(t, n)
  BY <1>4
<1>6. /\ OneMore(Used, t, n) /\ n[1] = n[2] /\ n[2] + 1 = Len(t)
      /\ Longer(Used, t) /\ Longer(t, Rest) /\ Used \in Seq(Units)
  BY <1>1, <1>2, <1>5, RestJoined DEF TakesLine
<1> DEFINE chunked == "transfer-encoding" \in DOMAIN headers_
           sized == "content-length" \in DOMAIN headers_
           length == headers_["content-length"]
<1>7. /\ t # <<>> /\ t[1] = RequestLine(path_)
      /\ FirstBlank(t) = {n} /\ n[1] + 1 = Len(t) /\ n[1] \in Nat
      /\ Malformed(t) <=> chunked \/ (sized /\ ~parseContentLength(length))
      /\ BodyLength(t) = IF sized THEN length ELSE 0
  BY <1>3, <1>6, BlankTaken
<1>8. RequestsAsSent'
  BY <1>1, <1>2, SameRequests
<1>9. ASSUME Malformed(t), Reject(AfterLine) PROVE ParserInv'
  <2>1. buf' = AfterLine
    BY <1>9 DEF Reject
  <2>2. Positions' /\ Rest' = Rest
    BY <1>1, <1>2, <2>1, LineRetrieved
  <2>3. Malformed(Rest)
    BY <1>2, <1>6, <1>9, Rejected
  <2>4. ParserTypes' /\ Progress' /\ Waiting'
    BY <1>2, <1>9, <2>2, <2>3, RejectStep
  <2> QED BY <1>8, <2>2, <2>4 DEF ParserInv
<1>10. CASE chunked
  <2>1. Reject(AfterLine)
    BY <1>10 DEF EndOfHeaders
  <2> QED BY <1>7, <1>9, <1>10, <2>1
<1>11. CASE ~chunked /\ ~sized
  <2>1. /\ state_' = "GotAll" /\ buf' = AfterLine
        /\ UNCHANGED <<pc, path_, headers_, body_, expectedBodyLength_>>
    BY <1>11 DEF EndOfHeaders
  <2>2. Positions' /\ Used' = t
    BY <1>1, <1>2, <1>4, <2>1, LineRetrieved
  <2>3. IsRequest(t, path_, <<>>)
    <3>1. ~Malformed(t) /\ BodyLength(t) = 0
      BY <1>7, <1>11
    <3>2. PICK k \in Nat, z \in Nat : k = n[1] + 2 /\ z = Len(t)
      <4>1. n[1] + 2 \in Nat /\ Len(t) \in Nat
        BY <1>7
      <4> QED BY <4>1
    <3>3. 1 <= k /\ k <= z + 1 /\ z <= Len(t) /\ z - k + 1 = 0
      BY <1>7, <3>2
    <3>4. PICK u \in Seq(Units) : u = Part(t, k, z)
      BY <3>3, PartType
    <3>5. Len(u) = 0
      BY <3>3, <3>4, PartLen
    <3>6. u = <<>>
      BY <3>5
    <3>7. <<>> = SubSeq(t, n[1] + 2, Len(t))
      BY <3>2, <3>4, <3>6 DEF Part
    <3>8. Len(<<>>) = BodyLength(t)
      BY <3>1
    <3> QED BY <1>7, <3>1, <3>7, <3>8 DEF IsRequest
  <2>4. ParserTypes'
    BY <1>2, <2>1 DEF ParserTypes
  <2>5. Progress'
    BY <1>3, <2>1, <2>2, <2>3 DEF Progress
  <2>6. Waiting'
    BY <1>1, <2>1 DEF Waiting
  <2> QED BY <1>8, <2>2, <2>4, <2>5, <2>6 DEF ParserInv
<1>12. CASE ~chunked /\ sized /\ ~parseContentLength(length)
  <2>1. Reject(AfterLine)
    BY <1>12 DEF EndOfHeaders
  <2> QED BY <1>7, <1>9, <1>12, <2>1
<1>13. CASE ~chunked /\ sized /\ parseContentLength(length)
  <2>1. /\ expectedBodyLength_' = length /\ state_' = "ExpectBody" /\ buf' = AfterLine
        /\ UNCHANGED <<pc, path_, headers_, body_>>
    BY <1>13 DEF EndOfHeaders
  <2>2. Positions' /\ Used' = t
    BY <1>1, <1>2, <1>4, <2>1, LineRetrieved
  <2>3. length \in Nat
    BY <1>13, SizeAssumption DEF parseContentLength
  <2>4. ReadingBody(t, path_, length)
    BY <1>7, <1>13 DEF ReadingBody
  <2>5. ParserTypes'
    BY <1>2, <2>1, <2>3 DEF ParserTypes
  <2>6. Progress'
    BY <2>1, <2>2, <2>4 DEF Progress
  <2>7. Waiting'
    BY <1>1, <2>1 DEF Waiting
  <2> QED BY <1>8, <2>2, <2>5, <2>6, <2>7 DEF ParserInv
<1> QED BY <1>10, <1>11, <1>12, <1>13

LEMMA ParseBodyStep ==
  ASSUME ParserInv, ParseBody
  PROVE  ParserInv'
<1>1. /\ pc = "parse" /\ state_ = "ExpectBody" /\ Len(buf) >= expectedBodyLength_
      /\ body_' = SubSeq(buf, 1, expectedBodyLength_)
      /\ buf' = SubSeq(buf, expectedBodyLength_ + 1, Len(buf)) /\ state_' = "GotAll"
      /\ UNCHANGED <<stream, received, pc, path_, headers_, expectedBodyLength_, got>>
  BY DEF ParseBody, bodyEnd
<1>2. Positions /\ ParserTypes /\ RequestsAsSent
  BY DEF ParserInv
<1>3. ReadingBody(Used, path_, expectedBodyLength_)
  BY <1>1 DEF ParserInv, Progress
<1>4. PICK p \in Seq(Units), b \in Seq(Units), q \in Seq(Units) :
        p = Used /\ b = buf /\ q = Rest /\ Joined(p, b, q)
  BY <1>2, RestJoined
<1>5. PICK k \in Nat : k = expectedBodyLength_
  BY <1>2 DEF ParserTypes
<1>6. k <= Len(buf) /\ k <= Len(b)
  BY <1>1, <1>4, <1>5
<1>7. PICK t \in Seq(Units) :
        /\ t = SubSeq(stream, Start, Taken + k)
        /\ Len(t) = Len(Used) + k /\ Longer(Used, t) /\ Longer(t, Rest)
  BY <1>2, <1>6, TakenMore
<1>8. Positions' /\ Used' = t
  BY <1>1, <1>2, <1>5, <1>6, <1>7, Retrieved
<1>9. PICK c \in Nat, d \in Nat, o \in Nat : c = Len(p) + 1 /\ d = Len(p) + k /\ o = 1
  OBVIOUS
<1>10. d <= Len(t) /\ Longer(t, q) /\ c = Len(p) + 1 /\ d = Len(p) + k
  BY <1>4, <1>7, <1>9
<1>11. Part(t, c, d) = Part(b, 1, k)
  BY <1>4, <1>6, <1>10, TakenText
<1>12. body_' = Part(t, c, d)
  BY <1>1, <1>4, <1>5, <1>11 DEF Part
<1>13. IsRequest(t, path_, body_')
  <2>1. ReadingBody(p, path_, k) /\ Longer(p, t) /\ Len(t) = Len(p) + k
    BY <1>3, <1>4, <1>5, <1>7
  <2>2. IsRequest(t, path_, SubSeq(t, Len(p) + 1, Len(p) + k))
    BY <2>1, BodyTaken
  <2> QED BY <1>9, <1>12, <2>2 DEF Part
<1>14. body_' \in Seq(Units)
  <2>1. 1 <= c /\ c <= d + 1
    BY <1>9
  <2> QED BY <1>10, <1>12, <2>1, PartType
<1>15. ParserTypes'
  BY <1>1, <1>2, <1>14 DEF ParserTypes
<1>16. Progress'
  BY <1>1, <1>8, <1>13 DEF Progress
<1>17. Waiting'
  BY <1>1 DEF Waiting
<1>18. RequestsAsSent'
  BY <1>1, <1>2, SameRequests
<1> QED BY <1>8, <1>15, <1>16, <1>17, <1>18 DEF ParserInv

(* A request is handed over: what was taken so far is its part of the      *)
(* stream, and the next one starts behind it.                              *)
LEMMA TakeRequestStep ==
  ASSUME ParserInv, TakeRequest
  PROVE  ParserInv'
<1>1. /\ pc = "parse" /\ state_ = "GotAll"
      /\ got' = Append(got, [path |-> path_, body |-> body_, end |-> Taken])
      /\ pc' = IF buf # <<>> THEN "parse" ELSE "idle"
      /\ UNCHANGED <<stream, received, buf>>
  BY DEF TakeRequest, Taken
<1>2. state_' = "ExpectRequestLine" /\ headers_' = <<>> /\ body_' = <<>>
  BY DEF TakeRequest, reset
<1>3. path_' = ""
  BY DEF TakeRequest, reset
<1>4. expectedBodyLength_' = 0
  BY DEF TakeRequest, reset
<1>5. Positions /\ ParserTypes /\ RequestsAsSent
  BY DEF ParserInv
<1>6. IsRequest(Used, path_, body_)
  BY <1>1 DEF ParserInv, Progress
<1>7. PICK x \in Seq(Units), a \in Nat, m \in Nat, z \in Nat : At(x, a, m, z)
  BY <1>5, PositionsAt
<1>8. /\ x = stream /\ a = Start /\ m = Taken /\ z = received
      /\ m <= z /\ z <= Len(x)
  BY <1>7 DEF At
<1> DEFINE R == [path : Paths, body : Seq(Units), end : Nat]
           r == [path |-> path_, body |-> body_, end |-> m]
<1>9. r \in R /\ r.path = path_ /\ r.body = body_ /\ r.end = m
  BY <1>5 DEF ParserTypes
<1>10. got \in Seq(R)
  BY <1>5 DEF Positions
<1>11. got' = Append(got, r)
  BY <1>1, <1>8
<1> HIDE DEF R, r
<1>12. PICK n \in Nat : n = Len(got)
  BY <1>10
<1>13. /\ got' \in Seq(R) /\ got' # <<>> /\ Len(got') = n + 1
       /\ \A i \in 1..n : got'[i] = got[i]
       /\ got'[n + 1] = r
  BY <1>9, <1>10, <1>11, <1>12, AppendProperties
<1>14. Taken' = Taken
  BY <1>1 DEF Taken
<1>15. Start' = m + 1
  BY <1>9, <1>13 DEF Start
<1>16. Positions'
  <2>1. Start' \in 1..(Taken' + 1)
    BY <1>8, <1>14, <1>15
  <2> QED BY <1>1, <1>5, <1>13, <1>14, <2>1 DEF Positions, R
<1>17. Used' = <<>>
  <2>1. Used' = SubSeq(x, m + 1, m)
    BY <1>1, <1>8, <1>14, <1>15 DEF Used
  <2>2. PICK k \in Nat : k = m + 1
    OBVIOUS
  <2>3. 1 <= k /\ k <= m + 1 /\ m <= Len(x) /\ m - k + 1 = 0
    BY <1>8, <2>2
  <2>4. PICK u \in Seq(Units) : u = Part(x, k, m)
    BY <2>3, PartType
  <2>5. Len(u) = 0
    BY <2>3, <2>4, PartLen
  <2>6. u = <<>>
    BY <2>5
  <2> QED BY <2>1, <2>2, <2>4, <2>6 DEF Part
<1>18. ParserTypes'
  <2>1. body_' = <<>>
    BY <1>2
  <2>2. body_' \in Seq(Units)
    BY <2>1
  <2>3. path_' \in Paths
    BY <1>3 DEF Paths
  <2>4. expectedBodyLength_' \in Nat
    BY <1>4
  <2>5. pc' \in {"idle", "parse"} /\ state_' = "ExpectRequestLine"
    BY <1>1, <1>2
  <2> QED BY <2>2, <2>3, <2>4, <2>5 DEF ParserTypes
<1>19. Progress'
  BY <1>2, <1>17 DEF Progress
<1>20. Waiting'
  <2>1. ASSUME pc' = "idle" PROVE findCRLF(buf') = 0
    <3>1. buf' = <<>>
      BY <1>1, <2>1
    <3>2. CRLFs(<<>>) = {}
      BY DEF CRLFs
    <3> QED BY <3>1, <3>2 DEF findCRLF
  <2> QED BY <1>2, <2>1 DEF Waiting
<1>21. RequestsAsSent'
  <2>1. ASSUME NEW k \in 1..n
        PROVE  IsRequest(SubSeq(stream', StartOf(k)', got'[k].end), got'[k].path, got'[k].body)
    <3>1. got'[k] = got[k]
      BY <1>13
    <3>2. StartOf(k)' = StartOf(k)
      <4>1. CASE k = 1
        BY <4>1 DEF StartOf
      <4>2. CASE k # 1
        <5>1. k - 1 \in 1..n
          BY <4>2
        <5>2. got'[k - 1] = got[k - 1]
          BY <1>13, <5>1
        <5> QED BY <4>2, <5>2 DEF StartOf
      <4> QED BY <4>1, <4>2
    <3>3. k \in DOMAIN got
      BY <1>10, <1>12
    <3>4. IsRequest(SubSeq(stream, StartOf(k), got[k].end), got[k].path, got[k].body)
      BY <1>5, <3>3 DEF RequestsAsSent
    <3> QED BY <1>1, <3>1, <3>2, <3>4
  <2>2. ASSUME NEW k, k = n + 1
        PROVE  IsRequest(SubSeq(stream', StartOf(k)', got'[k].end), got'[k].path, got'[k].body)
    <3>1. got'[k].end = m /\ got'[k].path = path_ /\ got'[k].body = body_
      BY <1>9, <1>13, <2>2
    <3>2. StartOf(k)' = Start
      <4>1. CASE n = 0
        <5>1. got = <<>> /\ k = 1
          <6>1. Len(got) = 0
            BY <1>12, <4>1
          <6>2. got = <<>>
            BY <1>10, <6>1
          <6>3. k = 1
            BY <2>2, <4>1
          <6> QED BY <6>2, <6>3
        <5> QED BY <5>1 DEF StartOf, Start
      <4>2. CASE n # 0
        <5>1. got # <<>> /\ k # 1 /\ k - 1 = n /\ n \in 1..n
          BY <1>10, <1>12, <2>2, <4>2
        <5>2. got'[k - 1] = got[Len(got)]
          BY <1>12, <1>13, <5>1
        <5> QED BY <5>1, <5>2 DEF StartOf, Start
      <4> QED BY <4>1, <4>2
    <3>3. SubSeq(stream', StartOf(k)', got'[k].end) = Used
      BY <1>1, <1>8, <3>1, <3>2 DEF Used
    <3> QED BY <1>6, <3>1, <3>3
  <2>3. DOMAIN got' = 1..(n + 1)
    BY <1>13
  <2>4. ASSUME NEW k \in DOMAIN got' PROVE k \in 1..n \/ k = n + 1
    BY <2>3
  <2> QED BY <2>1, <2>2, <2>4 DEF RequestsAsSent
<1> QED BY <1>16, <1>18, <1>19, <1>20, <1>21 DEF ParserInv

LEMMA JoinedIs ==
  ASSUME NEW S, NEW p \in Seq(S), NEW b \in Seq(S), NEW q \in Seq(S), Joined(p, b, q)
  PROVE  p \o b = q
<1>1. PICK u \in Seq(S) : u = p \o b
  BY ConcatProperties
<1>2. PICK n \in Nat, o \in Nat : n = Len(p) /\ o = Len(b)
  OBVIOUS
<1>3. Len(u) = n + o /\ Len(q) = n + o
  BY <1>1, <1>2, ConcatProperties DEF Joined
<1>4. ASSUME NEW i \in 1..(n + o) PROVE u[i] = q[i]
  <2>1. u[i] = IF i <= n THEN p[i] ELSE b[i - n]
    BY <1>1, <1>2, ConcatProperties
  <2>2. CASE i <= n
    BY <1>2, <2>1, <2>2 DEF Joined
  <2>3. CASE ~(i <= n)
    <3>1. PICK j \in Nat : j = i - n
      <4>1. i - n \in Nat
        BY <2>3
      <4> QED BY <4>1
    <3>2. j \in 1..o /\ n + j = i
      BY <2>3, <3>1
    <3>3. q[n + j] = b[j]
      BY <1>2, <3>2 DEF Joined
    <3> QED BY <2>1, <2>3, <3>1, <3>2, <3>3
  <2> QED BY <2>2, <2>3
<1>5. u = q
  BY <1>3, <1>4, SeqEqual
<1> QED BY <1>1, <1>5

(* A read grows the buffer and the rest, and leaves what was taken.        *)
LEMMA Read ==
  ASSUME Positions, NEW n \in 1..(Len(stream) - received),
         buf' = buf \o SubSeq(stream, received + 1, received + n),
         received' = received + n, UNCHANGED <<stream, got>>
  PROVE  /\ Positions' /\ Used' = Used
         /\ Rest' \in Seq(Units) /\ Longer(Rest, Rest')
<1>1. PICK x \in Seq(Units), a \in Nat, m \in Nat, z \in Nat : At(x, a, m, z)
  BY PositionsAt
<1>2. /\ x = stream /\ a = Start /\ m = Taken /\ z = received
      /\ 1 <= a /\ a <= m + 1 /\ m <= z /\ z <= Len(x)
  BY <1>1 DEF At
<1>3. buf = Part(x, m + 1, z) /\ Rest = Part(x, a, z)
  BY <1>1 DEF At
<1>4. n \in Nat /\ n <= Len(x) - z
  BY <1>2
<1>5. PICK w \in Nat, g \in Nat, h \in Nat : w = z + n /\ g = m + 1 /\ h = z + 1
  BY <1>4
<1>6. /\ z <= w /\ w <= Len(x) /\ 1 <= g /\ g <= z + 1 /\ g <= w + 1 /\ 1 <= h /\ h <= w + 1
      /\ a <= w + 1 /\ a <= z + 1 /\ w - g + 1 = w - m /\ m <= w
  BY <1>2, <1>4, <1>5
<1>7. PICK b \in Seq(Units) : b = Part(x, g, z)
  BY <1>2, <1>6, PartType
<1>8. PICK c \in Seq(Units) : c = Part(x, h, w)
  BY <1>6, PartType
<1>9. PICK d \in Seq(Units) : d = Part(x, g, w)
  BY <1>6, PartType
<1>10. Joined(b, c, d)
  BY <1>2, <1>5, <1>6, <1>7, <1>8, <1>9, JoinedParts
<1>11. b \o c = d
  BY <1>10, JoinedIs
<1>12. buf' = d
  BY <1>2, <1>3, <1>5, <1>7, <1>8, <1>11 DEF Part
<1>13. Len(d) = w - m
  <2>1. Len(d) = w - g + 1
    BY <1>6, <1>9, PartLen
  <2> QED BY <1>6, <2>1
<1>14. received' = w /\ stream' = x /\ Start' = a
  BY <1>2, <1>5 DEF Start
<1>15. Taken' = m
  <2>1. Taken' = w - Len(d)
    BY <1>12, <1>14 DEF Taken
  <2> QED BY <1>13, <2>1
<1>16. Used' = Used
  BY <1>2, <1>14, <1>15 DEF Used
<1>17. Rest' = Part(x, a, w)
  BY <1>14 DEF Rest, Start, Part
<1>18. PICK p \in Seq(Units), q \in Seq(Units) : p = Part(x, a, z) /\ q = Part(x, a, w)
  BY <1>2, <1>6, PartType
<1>19. Longer(p, q)
  BY <1>2, <1>6, <1>18, PartLonger
<1>20. Positions'
  <2>1. stream' \in Seq(Units) /\ received' \in 0..Len(stream')
    BY <1>6, <1>14
  <2>2. Start' \in 1..(Taken' + 1)
    BY <1>2, <1>14, <1>15
  <2>3. buf' \in Seq(Units) /\ Len(buf') <= received'
    <3>1. w - m <= w
      BY <1>6
    <3> QED BY <1>12, <1>13, <1>14, <3>1
  <2>4. buf' = SubSeq(stream', Taken' + 1, received')
    BY <1>5, <1>9, <1>12, <1>14, <1>15 DEF Part
  <2>5. got' \in Seq([path : Paths, body : Seq(Units), end : Nat])
    BY DEF Positions
  <2> QED BY <2>1, <2>2, <2>3, <2>4, <2>5 DEF Positions
<1> QED BY <1>3, <1>16, <1>17, <1>18, <1>19, <1>20

LEMMA onMessageStep ==
  ASSUME ParserInv, NEW n \in 1..(Len(stream) - received), onMessage(n)
  PROVE  ParserInv'
<1>1. /\ UNCHANGED <<stream, state_, path_, headers_, body_, expectedBodyLength_, got>>
      /\ pc' = IF state_ = "Error" THEN "idle" ELSE "parse"
  BY DEF onMessage, parserVars
<1>2. Positions /\ ParserTypes /\ RequestsAsSent
  BY DEF ParserInv
<1>3. /\ Positions' /\ Used' = Used
      /\ Rest' \in Seq(Units) /\ Longer(Rest, Rest')
  BY <1>2, Read DEF onMessage
<1>4. ParserTypes'
  BY <1>1, <1>2 DEF ParserTypes
<1>5. Malformed(Rest) => Malformed(Rest')
  <2>1. PICK p \in Seq(Units), q \in Seq(Units) : p = Rest /\ q = Rest'
    BY <1>2, <1>3, RestJoined
  <2>2. Longer(p, q)
    BY <1>3, <2>1
  <2>3. Malformed(p) => Malformed(q)
    BY <2>2, MalformedStays
  <2> QED BY <2>1, <2>3
<1>6. Progress'
  BY <1>1, <1>3, <1>5 DEF ParserInv, Progress
<1>7. Waiting'
  BY <1>1 DEF Waiting
<1>8. RequestsAsSent'
  BY <1>1, <1>2, SameRequests
<1> QED BY <1>3, <1>4, <1>6, <1>7, <1>8 DEF ParserInv

LEMMA ParserInit ==
  ASSUME Init
  PROVE  ParserInv
<1>1. stream \in Seq(Units)
  BY StreamsAssumption DEF Init
<1>2. received = 0 /\ pc = "idle" /\ state_ = "ExpectRequestLine" /\ expectedBodyLength_ = 0
  BY DEF Init
<1>3. buf = <<>>
  BY DEF Init
<1>4. path_ = ""
  BY DEF Init
<1>5. body_ = <<>>
  BY DEF Init
<1>6. headers_ = <<>>
  BY DEF Init
<1>7. got = <<>>
  BY DEF Init
<1>8. SubSeq(stream, 1, 0) = <<>>
  <2>1. PICK x \in Seq(Units), o \in Nat, e \in Nat : x = stream /\ o = 1 /\ e = 0
    BY <1>1
  <2>2. 1 <= o /\ o <= e + 1 /\ e <= Len(x) /\ e - o + 1 = 0
    BY <2>1
  <2>3. PICK u \in Seq(Units) : u = Part(x, o, e)
    BY <2>2, PartType
  <2>4. Len(u) = 0
    BY <2>2, <2>3, PartLen
  <2>5. u = <<>>
    BY <2>4
  <2> QED BY <2>1, <2>3, <2>5 DEF Part
<1>9. Len(buf) = 0
  BY <1>3
<1>10. Taken = 0
  BY <1>2, <1>9 DEF Taken
<1>11. Start = 1
  BY <1>7 DEF Start
<1>12. Positions
  <2>1. buf \in Seq(Units)
    BY <1>3
  <2>2. got \in Seq([path : Paths, body : Seq(Units), end : Nat])
    BY <1>7
  <2>3. received \in 0..Len(stream)
    BY <1>1, <1>2
  <2>4. Start \in 1..(Taken + 1) /\ Len(buf) <= received
    BY <1>2, <1>9, <1>10, <1>11
  <2>5. buf = SubSeq(stream, Taken + 1, received)
    <3>1. Taken + 1 = 1 /\ received = 0
      BY <1>2, <1>10
    <3> QED BY <1>3, <1>8, <3>1
  <2> QED BY <1>1, <2>1, <2>2, <2>3, <2>4, <2>5 DEF Positions
<1>13. ParserTypes
  <2>1. body_ \in Seq(Units)
    BY <1>5
  <2>2. path_ \in Paths
    BY <1>4 DEF Paths
  <2>3. expectedBodyLength_ \in Nat
    BY <1>2
  <2> QED BY <1>2, <2>1, <2>2, <2>3 DEF ParserTypes
<1>14. Progress
  <2>1. Used = <<>>
    BY <1>8, <1>10, <1>11 DEF Used
  <2> QED BY <1>2, <1>5, <1>6, <2>1 DEF Progress
<1>15. Waiting
  <2>1. CRLFs(<<>>) = {}
    BY DEF CRLFs
  <2>2. findCRLF(buf) = 0
    BY <1>3, <2>1 DEF findCRLF
  <2> QED BY <1>2, <2>2 DEF Waiting
<1>16. RequestsAsSent
  BY <1>7 DEF RequestsAsSent
<1> QED BY <1>12, <1>13, <1>14, <1>15, <1>16 DEF ParserInv

LEMMA ParserStutter ==
  ASSUME ParserInv, UNCHANGED vars
  PROVE  ParserInv'
<1>1. UNCHANGED <<stream, received, buf, pc, state_, path_, headers_, body_,
                  expectedBodyLength_, got>>
  BY DEF vars, parserVars
<1>2. Positions' /\ Used' = Used /\ Rest' = Rest
  BY <1>1, SamePositions DEF ParserInv
<1>3. ParserTypes'
  BY <1>1 DEF ParserInv, ParserTypes
<1>4. Progress'
  BY <1>1, <1>2 DEF ParserInv, Progress
<1>5. Waiting'
  BY <1>1 DEF ParserInv, Waiting
<1>6. RequestsAsSent'
  BY <1>1, SameRequests DEF ParserInv
<1> QED BY <1>2, <1>3, <1>4, <1>5, <1>6 DEF ParserInv

LEMMA ParserNext ==
  ASSUME ParserInv, [Next]_vars
  PROVE  ParserInv'
<1>1. CASE NeedsMore
  BY <1>1, NeedsMoreStep
<1>2. CASE ParseRequestLine
  BY <1>2, ParseRequestLineStep
<1>3. CASE ParseHeader
  BY <1>3, ParseHeaderStep
<1>4. CASE EndOfHeaders
  BY <1>4, EndOfHeadersStep
<1>5. CASE ParseBody
  BY <1>5, ParseBodyStep
<1>6. CASE TakeRequest
  BY <1>6, TakeRequestStep
<1>7. ASSUME NEW n \in 1..(Len(stream) - received), onMessage(n) PROVE ParserInv'
  BY <1>7, onMessageStep
<1>8. CASE UNCHANGED vars
  BY <1>8, ParserStutter
<1> QED BY <1>1, <1>2, <1>3, <1>4, <1>5, <1>6, <1>7, <1>8 DEF Next, ParseStep

-----------------------------------------------------------------------------
(* Between two reads nothing that was read is complete or, short of the    *)
(* Error state, malformed.                                                 *)
LEMMA InvUnfinished ==
  ASSUME ParserInv
  PROVE  RestIsUnfinished
<1> SUFFICES ASSUME pc = "idle"
             PROVE  ~Complete(Rest) /\ (state_ = "Error" <=> Malformed(Rest))
  BY DEF RestIsUnfinished
<1>1. Positions /\ ParserTypes /\ Progress /\ Waiting
  BY DEF ParserInv
<1>2. PICK p \in Seq(Units), b \in Seq(Units), q \in Seq(Units) :
        p = Used /\ b = buf /\ q = Rest /\ Joined(p, b, q)
  BY <1>1, RestJoined
<1>3. Longer(p, q)
  BY <1>2, JoinedLonger
<1>4. ASSUME LinesOf(q) = LinesOf(p), ~Malformed(p), Blank(p) = {}
      PROVE  ~Malformed(q) /\ ~Complete(q)
  <2>1. Blank(q) = {} /\ HeaderLines(q) = HeaderLines(p)
    BY <1>4 DEF Blank, HeaderLines
  <2>2. \A l \in LinesOf(p) : TextOf(q, l) = TextOf(p, l)
    BY <1>3, LongerLines
  <2>3. BadStart(q) <=> BadStart(p)
    BY <1>4, <2>2 DEF BadStart
  <2>4. \A l \in HeaderLines(p) : TextOf(q, l) = TextOf(p, l)
    BY <2>2, LineSets
  <2>5. ~Malformed(q)
    BY <1>4, <2>1, <2>3, <2>4, SameHead
  <2>6. FirstBlank(q) = {}
    BY <2>1 DEF FirstBlank
  <2> QED BY <2>5, <2>6 DEF Complete
<1>5. CASE state_ = "ExpectRequestLine"
  <2>1. p = <<>> /\ findCRLF(b) = 0
    BY <1>1, <1>2, <1>5 DEF Progress, Waiting
  <2>2. LinesOf(q) = LinesOf(p)
    BY <1>2, <2>1, NoLineFound, ZenonT(30) DEF Cut
  <2>3. LinesOf(p) = {}
    BY <2>1, NoLines
  <2>4. Blank(p) = {} /\ HeaderLines(p) = {} /\ ~BadStart(p)
    BY <2>3 DEF Blank, HeaderLines, BadStart
  <2>5. ~Malformed(p)
    BY <2>4, MalformedIs DEF BadHeader, Twice, BadFraming
  <2> QED BY <1>2, <1>4, <1>5, <2>2, <2>4, <2>5
<1>6. CASE state_ = "ExpectHeaders"
  <2>1. Cut(p) /\ ~Malformed(p) /\ Blank(p) = {} /\ findCRLF(b) = 0
    BY <1>1, <1>2, <1>6 DEF Progress, ReadingHeaders, Waiting
  <2>2. LinesOf(q) = LinesOf(p)
    BY <1>2, <2>1, NoLineFound
  <2> QED BY <1>2, <1>4, <1>6, <2>1, <2>2
<1>7. CASE state_ = "ExpectBody"
  <2>1. ReadingBody(p, path_, expectedBodyLength_) /\ Len(b) < expectedBodyLength_
    BY <1>1, <1>2, <1>7 DEF Progress, Waiting
  <2>2. PICK k \in Nat : k = expectedBodyLength_
    BY <1>1 DEF ParserTypes
  <2>3. ~Malformed(p) /\ k = BodyLength(p)
    BY <2>1, <2>2 DEF ReadingBody
  <2>4. PICK c \in FirstBlank(p) : c[1] + 1 = Len(p)
    BY <2>1 DEF ReadingBody
  <2>5. Blank(p) # {}
    BY <2>4, LineSets
  <2>6. ~Malformed(q) /\ BodyLength(q) = k /\ FirstBlank(q) = FirstBlank(p)
    BY <1>3, <2>3, <2>5, BodyFollows
  <2>7. Len(q) = Len(p) + Len(b) /\ Len(b) < k
    BY <1>2, <2>1, <2>2 DEF Joined
  <2>8. ASSUME NEW d \in FirstBlank(q) PROVE ~(Len(q) >= d[1] + 1 + BodyLength(q))
    <3>1. d[1] = c[1] /\ c[1] \in Nat
      BY <2>6, FirstBlankIs
    <3>2. d[1] + 1 + BodyLength(q) = Len(p) + k
      BY <2>4, <2>6, <3>1
    <3> QED BY <2>7, <3>2
  <2>9. ~Complete(q)
    BY <2>8 DEF Complete
  <2> QED BY <1>2, <1>7, <2>6, <2>9
<1>8. CASE state_ = "Error"
  BY <1>1, <1>8 DEF Progress, Complete
<1> QED BY <1>1, <1>5, <1>6, <1>7, <1>8 DEF ParserTypes, Waiting

(* The requests handed over are those of the stream, one behind the other, *)
(* each with the path and the body that was sent, for every stream and     *)
(* every way of cutting it into reads: parseRequest() takes no byte of one *)
(* request for another.                                                    *)
THEOREM RequestsAsSentHolds == Spec => []RequestsAsSent
<1>1. Init => ParserInv
  BY ParserInit
<1>2. ParserInv /\ [Next]_vars => ParserInv'
  BY ParserNext
<1>3. ParserInv => RequestsAsSent
  BY DEF ParserInv
<1> QED BY <1>1, <1>2, <1>3, PTL DEF Spec

(* When onMessage() returns, what follows the requests handed over is not  *)
(* a complete request, and the parser is in its Error state exactly when   *)
(* it is malformed, for every stream and every way of cutting it.          *)
THEOREM RestIsUnfinishedHolds == Spec => []RestIsUnfinished
<1>1. Init => ParserInv
  BY ParserInit
<1>2. ParserInv /\ [Next]_vars => ParserInv'
  BY ParserNext
<1>3. ParserInv => RestIsUnfinished
  BY InvUnfinished
<1> QED BY <1>1, <1>2, <1>3, PTL DEF Spec
=============================================================================
