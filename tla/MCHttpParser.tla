---------------------------- MODULE MCHttpParser ----------------------------
(* Streams of two requests, good and bad ones, cut anywhere.               *)
EXTENDS HttpParser, SequencesExt

WithCRLF(units) == FlattenSeq([i \in DOMAIN units |-> <<units[i], CR, LF>>])

len(n) == Header("Content-Length", n)
host == Header("Host", NotDigits)

(* Heads, some of them malformed, and bodies that do or do not fit them.   *)
HeaderBlocks == {
  <<>>, <<len(0)>>, <<len(1), host>>, <<host, len(2)>>,
  <<len(SizeMax + 1)>>, <<len(NotDigits)>>,
  <<host, Header("host", NotDigits)>>, <<len(1), Header("content-length", 1)>>,
  <<len(1), Header("Transfer-Encoding", NotDigits)>>,
  <<Text>>, <<host, CR>> }

Bodies == {<<>>, <<Text>>, <<CR, LF>>, <<RequestLine("/"), CR, LF>>}

Good ==
  {WithCRLF(<<RequestLine("/chat")>> \o block) \o <<CR, LF>> \o body :
     block \in HeaderBlocks, body \in Bodies}

Bad == {
  <<CR, LF>>, <<LF>>, <<Text, CR, LF>>,
  <<RequestLine("/"), Text, CR, LF>>, <<RequestLine("/"), CR, CR, LF>>,
  <<RequestLine("/"), CR, LF, len(1), len(1), CR, LF, CR, LF>>,
  <<RequestLine("/"), CR, LF, host, Text, CR, LF, CR, LF>>,
  <<RequestLine("/"), CR, LF, host, LF, CR, LF, CR, LF>> }

(* Whatever may follow, two requests behind each other and a short third.  *)
MCStreams ==
  {a \o b : a \in Good, b \in Good \cup Bad}
    \cup {a \o b \o <<RequestLine("/"), CR, LF, CR, LF>> : a \in Bad, b \in Good}
=============================================================================
