----------------------------- MODULE HttpParser -----------------------------
(***************************************************************************)
(* The HttpParser of one connection (src/tcp/HttpParser.cpp) and the loop  *)
(* of WebChatServer::onMessage() that drives it (main.cpp).  The peer      *)
(* sends a stream; every read hands some more of it to the parser, which   *)
(* keeps its progress between the reads.                                   *)
(*                                                                         *)
(* A stream is a sequence of units.  A unit is the text of a request line  *)
(* or of a header without its CRLF, a piece of other text that starts with *)
(* a space, a CR or a LF; each stands for one byte of a body.  Texts that  *)
(* follow each other without a CRLF are one line: a request line grows an  *)
(* unknown version, a header a longer value.                               *)
(***************************************************************************)
EXTENDS Integers, Sequences

CONSTANTS
  Streams,    \* the streams a peer may send
  SizeMax     \* largest size_t

ASSUME SizeAssumption == SizeMax \in Nat

(* Values of a header are numbers: those in 0..SizeMax are digits that fit *)
(* a size_t, larger ones are digits that do not, NotDigits is the rest.    *)
NotDigits == -1

Unit(kind, name, value) == [kind |-> kind, name |-> name, value |-> value]
RequestLine(path) == Unit("request", path, NotDigits)
Header(name, value) == Unit("header", name, value)
Text == Unit("text", "", NotDigits)
CR == Unit("CR", "", NotDigits)
LF == Unit("LF", "", NotDigits)

Units ==
  [kind : {"request"}, name : STRING, value : {NotDigits}]
    \cup [kind : {"header"}, name : STRING, value : Nat \cup {NotDigits}]
    \cup {Text, CR, LF}

ASSUME StreamsAssumption == Streams \subseteq Seq(Units)

VARIABLES
  stream,                     \* what this peer sends
  received,                   \* how many units of it were read
  buf,                        \* inputBuffer_
  pc,                         \* "idle", or "parse" inside parseRequest()
  state_, path_, headers_, body_, expectedBodyLength_,
  got                         \* history: the requests handed over, and where
                              \* in the stream each of them ended

parserVars == <<state_, path_, headers_, body_, expectedBodyLength_>>
vars == <<stream, received, buf, pc, parserVars, got>>

(* toLowerAscii(), for the spellings of field names that streams use.      *)
toLowerAscii(name) ==
  CASE name \in {"Host", "host"} -> "host"
    [] name \in {"Content-Length", "content-length"} -> "content-length"
    [] name = "Transfer-Encoding" -> "transfer-encoding"
    [] OTHER -> name

(* parseContentLength(): digits only, and a number that fits.              *)
parseContentLength(value) == value \in 0..SizeMax

CRLFs(s) == {i \in 1..(Len(s) - 1) : s[i] = CR /\ s[i + 1] = LF}
First(S) == CHOOSE i \in S : \A j \in S : i <= j

(* Buffer::findCRLF(): where the first CRLF starts, or 0.                  *)
findCRLF(b) == IF CRLFs(b) = {} THEN 0 ELSE First(CRLFs(b))

(* processRequestLine() accepts the line.                                  *)
processRequestLine(line) == Len(line) = 1 /\ line[1].kind = "request"

(* A header line: a field name up to the colon, no control characters.     *)
validHeader(line) ==
  /\ line # <<>> /\ line[1].kind = "header"
  /\ \A i \in DOMAIN line : line[i].kind \notin {"CR", "LF"}

fieldOf(line) == toLowerAscii(line[1].name)
valueOf(line) == IF Len(line) = 1 THEN line[1].value ELSE NotDigits

Init ==
  /\ stream \in Streams
  /\ received = 0 /\ buf = <<>> /\ pc = "idle"
  /\ state_ = "ExpectRequestLine" /\ path_ = "" /\ headers_ = <<>>
  /\ body_ = <<>> /\ expectedBodyLength_ = 0
  /\ got = <<>>

-----------------------------------------------------------------------------
(* handleRead() appended n units and called onMessage(); parseRequest()    *)
(* returns false at once when the parser is in its Error state.            *)
onMessage(n) ==
  /\ pc = "idle"
  /\ received + n <= Len(stream)
  /\ buf' = buf \o SubSeq(stream, received + 1, received + n)
  /\ received' = received + n
  /\ pc' = IF state_ = "Error" THEN "idle" ELSE "parse"
  /\ UNCHANGED <<stream, parserVars, got>>

Line == SubSeq(buf, 1, findCRLF(buf) - 1)
AfterLine == SubSeq(buf, findCRLF(buf) + 2, Len(buf))

AtLine(state) == pc = "parse" /\ state_ = state /\ findCRLF(buf) # 0

(* parseRequest() returns true without a request: the line or the body is  *)
(* not complete yet.                                                       *)
NeedsMore ==
  /\ pc = "parse"
  /\ \/ state_ \in {"ExpectRequestLine", "ExpectHeaders"} /\ findCRLF(buf) = 0
     \/ state_ = "ExpectBody" /\ Len(buf) < expectedBodyLength_
  /\ pc' = "idle"
  /\ UNCHANGED <<stream, received, buf, parserVars, got>>

(* parseRequest() returns false; what was not retrieved stays in rest.     *)
Reject(rest) ==
  /\ state_' = "Error" /\ pc' = "idle" /\ buf' = rest
  /\ UNCHANGED <<path_, headers_, body_, expectedBodyLength_>>

ParseRequestLine ==
  /\ AtLine("ExpectRequestLine")
  /\ IF processRequestLine(Line)
     THEN /\ path_' = Line[1].name
          /\ buf' = AfterLine
          /\ state_' = "ExpectHeaders"
          /\ UNCHANGED <<pc, headers_, body_, expectedBodyLength_>>
     ELSE Reject(buf)
  /\ UNCHANGED <<stream, received, got>>

(* headers_.emplace() of a field that is not in the map yet.               *)
emplace(f, field, value) ==
  [g \in DOMAIN f \cup {field} |-> IF g = field THEN value ELSE f[g]]

(* A header is taken out of the buffer once headers_ has it; a second      *)
(* field of the same name is refused.                                      *)
ParseHeader ==
  /\ AtLine("ExpectHeaders")
  /\ Line # <<>>
  /\ IF validHeader(Line) /\ fieldOf(Line) \notin DOMAIN headers_
     THEN /\ headers_' = emplace(headers_, fieldOf(Line), valueOf(Line))
          /\ buf' = AfterLine
          /\ UNCHANGED <<pc, state_, path_, body_, expectedBodyLength_>>
     ELSE Reject(buf)
  /\ UNCHANGED <<stream, received, got>>

(* The blank line decides how the body is framed.                          *)
EndOfHeaders ==
  /\ AtLine("ExpectHeaders")
  /\ Line = <<>>
  /\ \/ /\ "transfer-encoding" \in DOMAIN headers_
        /\ Reject(AfterLine)
     \/ /\ DOMAIN headers_ \cap {"transfer-encoding", "content-length"} = {}
        /\ state_' = "GotAll"
        /\ buf' = AfterLine
        /\ UNCHANGED <<pc, path_, headers_, body_, expectedBodyLength_>>
     \/ /\ "transfer-encoding" \notin DOMAIN headers_
        /\ "content-length" \in DOMAIN headers_
        /\ IF parseContentLength(headers_["content-length"])
           THEN /\ expectedBodyLength_' = headers_["content-length"]
                /\ state_' = "ExpectBody"
                /\ buf' = AfterLine
                /\ UNCHANGED <<pc, path_, headers_, body_>>
           ELSE Reject(AfterLine)
  /\ UNCHANGED <<stream, received, got>>

(* Mutant: the body takes all that was read.                               *)
bodyEndAll == Len(buf)

(* Where the body ends: a pipelined request stays in the buffer.           *)
bodyEnd == expectedBodyLength_

ParseBody ==
  /\ pc = "parse" /\ state_ = "ExpectBody"
  /\ Len(buf) >= expectedBodyLength_
  /\ body_' = SubSeq(buf, 1, bodyEnd)
  /\ buf' = SubSeq(buf, bodyEnd + 1, Len(buf))
  /\ state_' = "GotAll"
  /\ UNCHANGED <<stream, received, pc, path_, headers_, expectedBodyLength_, got>>

(* Mutant: the headers of the last request are kept.                       *)
resetKeepsHeaders ==
  /\ state_' = "ExpectRequestLine"
  /\ path_' = "" /\ body_' = <<>> /\ expectedBodyLength_' = 0
  /\ UNCHANGED headers_

reset ==
  /\ state_' = "ExpectRequestLine"
  /\ path_' = "" /\ headers_' = <<>> /\ body_' = <<>> /\ expectedBodyLength_' = 0

(* onMessage() takes the request out of the parser.                        *)
TakeRequest ==
  /\ pc = "parse" /\ state_ = "GotAll"
  /\ got' = Append(got, [path |-> path_, body |-> body_, end |-> received - Len(buf)])
  /\ reset
  /\ pc' = IF buf # <<>> THEN "parse" ELSE "idle"
  /\ UNCHANGED <<stream, received, buf>>

-----------------------------------------------------------------------------
ParseStep ==
  NeedsMore \/ ParseRequestLine \/ ParseHeader \/ EndOfHeaders \/ ParseBody \/ TakeRequest

Next == ParseStep \/ \E n \in 1..(Len(stream) - received) : onMessage(n)

Spec == Init /\ [][Next]_vars

-----------------------------------------------------------------------------
(* What a request is, said of a whole stream s rather than line by line.   *)

(* The complete lines of s: where each starts and where its CRLF is.       *)
LinesOf(s) ==
  LET ends(from) == {i \in CRLFs(s) : i >= from}
  IN  {<<from, First(ends(from))>> :
         from \in {i \in {1} \cup {j + 2 : j \in CRLFs(s)} : ends(i) # {}}}
TextOf(s, l) == SubSeq(s, l[1], l[2] - 1)

(* The blank line that ends the head, if there is one, and the head.       *)
Blank(s) == {l \in LinesOf(s) : l[1] = l[2]}
FirstBlank(s) == {l \in Blank(s) : \A k \in Blank(s) : l[1] <= k[1]}
HeaderLines(s) ==
  {l \in LinesOf(s) : l[1] > 1 /\ \A b \in Blank(s) : l[1] < b[1]}

HasField(s, field) ==
  \E l \in HeaderLines(s) : validHeader(TextOf(s, l)) /\ fieldOf(TextOf(s, l)) = field
Lengths(s) ==
  {valueOf(TextOf(s, l)) : l \in {k \in HeaderLines(s) :
     validHeader(TextOf(s, k)) /\ fieldOf(TextOf(s, k)) = "content-length"}}

(* s cannot become a request whatever follows it.                          *)
Malformed(s) ==
  \/ \E l \in LinesOf(s) : l[1] = 1 /\ ~processRequestLine(TextOf(s, l))
  \/ \E l \in HeaderLines(s) : ~validHeader(TextOf(s, l))
  \/ \E l, k \in HeaderLines(s) :
       l # k /\ validHeader(TextOf(s, l)) /\ validHeader(TextOf(s, k))
         /\ fieldOf(TextOf(s, l)) = fieldOf(TextOf(s, k))
  \/ /\ Blank(s) # {}
     /\ \/ HasField(s, "transfer-encoding")
        \/ \E n \in Lengths(s) : n \notin 0..SizeMax

(* The length of the body that the head of s announces.                    *)
BodyLength(s) == IF Lengths(s) = {} THEN 0 ELSE CHOOSE n \in Lengths(s) : TRUE

(* s starts with a complete request, or is one.                            *)
Complete(s) ==
  /\ ~Malformed(s)
  /\ \E b \in FirstBlank(s) : Len(s) >= b[1] + 1 + BodyLength(s)
IsRequest(s, path, body) ==
  /\ ~Malformed(s)
  /\ s # <<>> /\ s[1] = RequestLine(path)
  /\ \E b \in FirstBlank(s) : body = SubSeq(s, b[1] + 2, Len(s)) /\ Len(body) = BodyLength(s)

StartOf(k) == IF k = 1 THEN 1 ELSE got[k - 1].end + 1
Rest == SubSeq(stream, IF got = <<>> THEN 1 ELSE got[Len(got)].end + 1, received)

(* The requests handed over are those of the stream, one behind the other, *)
(* each with the path and the body that was sent, however the stream was   *)
(* cut into reads: no byte of one request is taken for another.            *)
RequestsAsSent ==
  \A k \in DOMAIN got :
    IsRequest(SubSeq(stream, StartOf(k), got[k].end), got[k].path, got[k].body)

(* When onMessage() returns, what follows the requests handed over is no   *)
(* complete request that waits for the next read, and the parser is in its *)
(* Error state if and only if it is malformed.                             *)
RestIsUnfinished ==
  pc = "idle" => ~Complete(Rest) /\ (state_ = "Error" <=> Malformed(Rest))
=============================================================================
