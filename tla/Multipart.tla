------------------------------ MODULE Multipart ------------------------------
(***************************************************************************)
(* The multipart parser that every upload goes through                     *)
(* (lib/psychic_http, MultipartProcessor.cpp, PsychicUploadHandler.cpp):   *)
(* one byte at a time, with what could still become a delimiter held back  *)
(* in the parser's state, and files handed on in buffers.                  *)
(*                                                                         *)
(* Bytes are the strings Cr, Lf, "-" and letters.  A header line counts as *)
(* one byte that says what the parser takes from it; Blank is the empty    *)
(* line that ends the headers.  Bodies are what browsers send: no preamble *)
(* and no epilogue, fields and files, closed by the last delimiter.        *)
(***************************************************************************)
EXTENDS Naturals, Sequences, FiniteSets, SequencesExt

CONSTANTS
    Boundary,       \* the boundary, a sequence of bytes
    Letters,        \* bytes of contents other than Cr, Lf and "-"
    FileChunkSize,  \* FILE_CHUNK_SIZE: bytes in a buffer of a file
    FirstLength,    \* bound: bytes in the only part
    SecondLength    \* bound: bytes in each of two parts

Cr == "cr"
Lf == "lf"
Blank == "blank"
TypeLine == "type"

ASSUME MultipartAssumption ==
    /\ Boundary \in Seq(Letters \union {"-"}) /\ Boundary # <<>>
    /\ FileChunkSize \in Nat \ {0}
    /\ FirstLength \in Nat /\ SecondLength \in Nat
    /\ Letters \intersect {Cr, Lf, "-", Blank, TypeLine, "title", "clip.wav", "other.wav"} = {}

Delimiter == <<Cr, Lf, "-", "-">> \o Boundary
Bytes == Letters \union {Cr, Lf, "-"}

\* A disposition line names a field or a file, by its name.
FieldNames == {"title"}
FileNames == {"clip.wav", "other.wav"}

-----------------------------------------------------------------------------
(* What clients send.                                                      *)

Occurs(d, c) == \E i \in 1..(Len(c) + 1 - Len(d)) : SubSeq(c, i, i + Len(d) - 1) = d

\* Contents in which the client's delimiter does not occur, the one that
\* follows them included.
Contents(n) ==
    {c \in BoundedSeq(Bytes, n) : ~Occurs(Delimiter, SubSeq(c \o Delimiter, 1, Len(c) + Len(Delimiter) - 1))}

Parts(n) == [name : FieldNames \union FileNames, content : Contents(n)]

Headers(part) ==
    IF part.name \in FileNames THEN <<part.name, TypeLine, Blank>> ELSE <<part.name, Blank>>

Encoded(part) == <<"-", "-">> \o Boundary \o <<Cr, Lf>> \o Headers(part) \o part.content \o <<Cr, Lf>>

Encode(parts) ==
    LET body[n \in 0..Len(parts)] ==
          IF n = 0 THEN <<>> ELSE body[n - 1] \o Encoded(parts[n])
    IN  body[Len(parts)] \o <<"-", "-">> \o Boundary \o <<"-", "-", Cr, Lf>>

-----------------------------------------------------------------------------
(* The parser.                                                             *)

NewParser ==
    [state |-> "EXPECT_BOUNDARY", parsed |-> 0, matched |-> 0, isFile |-> FALSE,
     name |-> "", filename |-> "", size |-> 0, value |-> <<>>, buffer |-> <<>>,
     calls |-> <<>>, params |-> <<>>]

\* _uploadCallback: the file's name, where the data starts, the data, final.
CallBack(p, final) ==
    [p EXCEPT !.calls = Append(@, [filename |-> p.filename, index |-> p.size - Len(p.buffer),
                                   data |-> p.buffer, final |-> final]),
              !.buffer = <<>>]

\* itemWriteByte with _handleUploadByte()
WriteByte(p, b, last) ==
    LET q == [p EXCEPT !.size = @ + 1] IN
    IF ~p.isFile THEN [q EXCEPT !.value = Append(@, b)]
    ELSE LET r == [q EXCEPT !.buffer = Append(@, b)] IN
         IF last \/ Len(r.buffer) = FileChunkSize THEN CallBack(r, last) ELSE r

WriteBytes(p, bs, last) ==
    LET written[n \in 0..Len(bs)] ==
          IF n = 0 THEN p ELSE WriteByte(written[n - 1], bs[n], last)
    IN  written[Len(bs)]

\* WAIT_FOR_RETURN1
InContent(p, b, last) ==
    IF b = Cr THEN [p EXCEPT !.state = "EXPECT_FEED1"]
    ELSE WriteByte([p EXCEPT !.state = "WAIT_FOR_RETURN1"], b, last)

\* Slip: the byte that did not fit is written as it is, also a Cr that may
\* begin the delimiter.
NotDelimiterTakesTheByte(p, held, b, last) ==
    WriteBytes([p EXCEPT !.state = "WAIT_FOR_RETURN1"], Append(held, b), last)

\* What looked like a delimiter is content: what was held back is written, and
\* the byte that did not fit is parsed as content.
NotDelimiter(p, held, b, last) ==
    InContent(WriteBytes([p EXCEPT !.state = "WAIT_FOR_RETURN1"], held, last), b, last)

Fail(p) == [p EXCEPT !.state = "PARSE_ERROR"]

\* EXPECT_BOUNDARY
InFirstBoundary(p, b) ==
    IF \/ p.parsed < 2 /\ b # "-"
       \/ p.parsed >= 2 /\ p.parsed - 2 < Len(Boundary) /\ Boundary[p.parsed - 1] # b
       \/ p.parsed - 2 = Len(Boundary) /\ b # Cr
       \/ p.parsed - 3 = Len(Boundary) /\ b # Lf
    THEN Fail(p)
    ELSE IF p.parsed - 3 = Len(Boundary)
    THEN [p EXCEPT !.state = "PARSE_HEADERS", !.isFile = FALSE]
    ELSE p

\* PARSE_HEADERS: names that a part does not give stay those of the last one.
InHeaders(p, b) ==
    CASE b = Blank -> [p EXCEPT !.state = "WAIT_FOR_RETURN1", !.size = 0, !.value = <<>>,
                                !.buffer = IF p.isFile THEN <<>> ELSE @]
      [] b = TypeLine -> [p EXCEPT !.isFile = TRUE]
      [] b \in FileNames -> [p EXCEPT !.filename = b, !.isFile = TRUE]
      [] OTHER -> [p EXCEPT !.name = b]

\* The delimiter is complete: the part ends.  An empty file is not reported.
EndPart(p) ==
    LET q == [p EXCEPT !.state = "DASH3_OR_RETURN2"] IN
    IF ~p.isFile
    THEN [q EXCEPT !.params = Append(@, [name |-> p.name, value |-> p.value])]
    ELSE IF p.size = 0 THEN q
    ELSE [CallBack(q, TRUE) EXCEPT !.params = Append(@, [name |-> p.filename, value |-> <<>>])]

\* BOUNDARY_OR_DATA
InBoundary(p, b, last) ==
    IF Boundary[p.matched + 1] # b
    THEN NotDelimiter(p, <<Cr, Lf, "-", "-">> \o SubSeq(Boundary, 1, p.matched), b, last)
    ELSE IF p.matched = Len(Boundary) - 1 THEN EndPart(p)
    ELSE [p EXCEPT !.matched = @ + 1]

\* DASH3_OR_RETURN2: the last delimiter is the one that contentLength() says
\* is followed by two dashes and a line end.
AfterBoundary(p, b, last, length) ==
    CASE b = Cr -> [p EXCEPT !.state = "EXPECT_FEED2"]
      [] b = "-" /\ length = p.parsed + 4 -> [p EXCEPT !.state = "PARSING_FINISHED"]
      [] b = "-" /\ length # p.parsed + 4 -> Fail(p)
      [] OTHER -> NotDelimiter(p, Delimiter, b, last)

\* _parseMultipartPostByte() before _parsedLength is advanced
Parse(p, b, last, length) ==
    CASE p.state = "EXPECT_BOUNDARY" -> InFirstBoundary(p, b)
      [] p.state = "PARSE_HEADERS" -> InHeaders(p, b)
      [] p.state = "WAIT_FOR_RETURN1" -> InContent(p, b, last)
      [] p.state = "EXPECT_FEED1" ->
           IF b = Lf THEN [p EXCEPT !.state = "EXPECT_DASH1"]
           ELSE NotDelimiter(p, <<Cr>>, b, last)
      [] p.state = "EXPECT_DASH1" ->
           IF b = "-" THEN [p EXCEPT !.state = "EXPECT_DASH2"]
           ELSE NotDelimiter(p, <<Cr, Lf>>, b, last)
      [] p.state = "EXPECT_DASH2" ->
           IF b = "-" THEN [p EXCEPT !.state = "BOUNDARY_OR_DATA", !.matched = 0]
           ELSE NotDelimiter(p, <<Cr, Lf, "-">>, b, last)
      [] p.state = "BOUNDARY_OR_DATA" -> InBoundary(p, b, last)
      [] p.state = "DASH3_OR_RETURN2" -> AfterBoundary(p, b, last, length)
      [] p.state = "EXPECT_FEED2" ->
           IF b = Lf THEN [p EXCEPT !.state = "PARSE_HEADERS", !.isFile = FALSE]
           ELSE NotDelimiter(p, Delimiter \o <<Cr>>, b, last)
      [] OTHER -> p   \* PARSING_FINISHED, PARSE_ERROR

-----------------------------------------------------------------------------
(* A whole body, byte by byte, as process() parses it.  Chunks may end     *)
(* anywhere and timeouts are retried: neither makes a difference to it.    *)

Feed(p, b, length) ==
    [Parse(p, b, p.parsed + 1 = length, length) EXCEPT !.parsed = @ + 1]

Parsed(body) ==
    LET after[n \in 0..Len(body)] ==
          IF n = 0 THEN NewParser ELSE Feed(after[n - 1], body[n], Len(body))
    IN  after[Len(body)]

-----------------------------------------------------------------------------
(* Properties.                                                             *)

\* The entries of a list that are in S, in order.
Chosen(list, S) ==
    LET kept[n \in 0..Len(list)] ==
          IF n = 0 THEN <<>>
          ELSE IF list[n] \in S THEN Append(kept[n - 1], list[n]) ELSE kept[n - 1]
    IN  kept[Len(list)]

FilesIn(sent) == Chosen(sent, [name : FileNames, content : Seq(Bytes) \ {<<>>}])
FieldsIn(sent) == Chosen(sent, [name : FieldNames, content : Seq(Bytes)])
FieldsOf(params) == Chosen(params, [name : FieldNames, value : Seq(Bytes)])

\* Calls before the i-th that were the last of their file, and where in its
\* file the one before it ended.
FilesEndedBefore(calls, i) == Cardinality({j \in 1..(i - 1) : calls[j].final})

ReachedBefore(calls, i) ==
    IF i = 1 THEN 0
    ELSE IF calls[i - 1].final THEN 0 ELSE calls[i - 1].index + Len(calls[i - 1].data)

\* The i-th call is about the file after those that have ended, goes on where
\* the call before it stopped, has the bytes that belong there, and is final
\* only with the last of them.
ContinuesAFile(files, calls, i) ==
    LET call == calls[i]
        k == FilesEndedBefore(calls, i) + 1
        end == call.index + Len(call.data)
    IN /\ k <= Len(files)
       /\ call.filename = files[k].name
       /\ call.index = ReachedBefore(calls, i)
       /\ end <= Len(files[k].content)
       /\ call.data = SubSeq(files[k].content, call.index + 1, end)
       /\ call.final => end = Len(files[k].content)

\* Every call, so also all those of a connection that dies.
FilesArriveAsSent(sent, calls) ==
    \A i \in DOMAIN calls : ContinuesAFile(FilesIn(sent), calls, i)

\* A body that was read to its end gave every part: files to the callback,
\* fields to the request's parameters, in order.
NothingIsLeftBehind(sent, p) ==
    /\ p.state = "PARSING_FINISHED"
    /\ FilesEndedBefore(p.calls, Len(p.calls) + 1) = Len(FilesIn(sent))
    /\ FieldsOf(p.params)
         = [i \in DOMAIN FieldsIn(sent) |->
              [name |-> FieldsIn(sent)[i].name, value |-> FieldsIn(sent)[i].content]]

\* What a client may send in these bounds.
Uploads == {<<p>> : p \in Parts(FirstLength)}
           \union {<<p, q>> : p \in Parts(SecondLength), q \in Parts(SecondLength)}

\* The body of an upload is taken apart as it was put together, whatever its
\* parts are made of, pieces of the delimiter included, and wherever they end
\* in a buffer.
ArrivesAsSent(sent) ==
    LET p == Parsed(Encode(sent))
    IN FilesArriveAsSent(sent, p.calls) /\ NothingIsLeftBehind(sent, p)

=============================================================================
