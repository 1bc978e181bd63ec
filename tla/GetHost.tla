-------------------------------- MODULE GetHost --------------------------------
(* 2/GET_HOST_test.cpp: the server of one connection that reads a request in   *)
(* whatever pieces recv returns, parses each piece, answers once and closes.   *)
(* One action per recv and per iteration of parse_content.                     *)
EXTENDS LineParser

CONSTANTS Streams,      \* the byte streams a client may send, over Symbols
          BufferSize    \* BUFFER_SIZE

ASSUME GetHostAssumption == Streams \subseteq Seq(Symbols) /\ BufferSize \in Nat \ {0}

VARIABLES stream, sent,    \* what the client sends, how much it has sent
          shut,            \* it has closed its side
          buffer, read_index, checked_index, start_line, checkstate,
          pc,              \* "recv", "parse" or "closed"
          reply            \* the answer sent: szret[0], szret[1] or none

vars == <<stream, sent, shut, buffer, read_index, checked_index, start_line, checkstate,
          pc, reply>>
client == <<stream, sent, shut>>

Init ==
  /\ stream \in Streams /\ sent = 0 /\ shut = FALSE
  /\ buffer = <<>> /\ read_index = 0 /\ checked_index = 0 /\ start_line = 0
  /\ checkstate = "REQUESTLINE" /\ pc = "recv" /\ reply = "none"

\* The client: send() of some bytes, close().
Send(n) == /\ ~shut /\ sent + n <= Len(stream)
           /\ sent' = sent + n
           /\ UNCHANGED <<stream, shut, buffer, read_index, checked_index, start_line,
                          checkstate, pc, reply>>
Shut == /\ ~shut /\ shut' = TRUE
        /\ UNCHANGED <<stream, sent, buffer, read_index, checked_index, start_line,
                       checkstate, pc, reply>>

Room == BufferSize - read_index

\* recv gives some of the bytes that arrived, as many as fit.
Recv(n) ==
  /\ pc = "recv" /\ n <= Room /\ read_index + n <= sent
  /\ buffer' = buffer \o SubSeq(stream, read_index + 1, read_index + n)
  /\ read_index' = read_index + n
  /\ pc' = "parse"
  /\ UNCHANGED <<client, checked_index, start_line, checkstate, reply>>

\* recv gives 0, at the end of the stream or with no room left, or -1:
\* no answer is sent.
RecvNothingGoesOn ==
  /\ pc = "recv"
  /\ (shut /\ read_index = sent) \/ Room = 0
  /\ pc' = "parse"
  /\ UNCHANGED <<client, buffer, read_index, checked_index, start_line, checkstate, reply>>
RecvNothing ==
  /\ pc = "recv"
  /\ (shut /\ read_index = sent) \/ Room = 0
  /\ pc' = "closed"
  /\ UNCHANGED <<client, buffer, read_index, checked_index, start_line, checkstate, reply>>
RecvFails ==
  /\ pc = "recv" /\ shut
  /\ pc' = "closed"
  /\ UNCHANGED <<client, buffer, read_index, checked_index, start_line, checkstate, reply>>

Line == ParseLine(buffer, read_index, checked_index)
LineText == SubSeq(buffer, start_line + 1, Line.checked - 2)

Answer(szret) == reply' = szret /\ pc' = "closed"

\* parse_content: no further line.  Only LINE_OPEN reads on.
NoLineWaits ==
  /\ pc = "parse" /\ Line.status # "LINE_OK"
  /\ checked_index' = Line.checked
  /\ pc' = "recv" /\ UNCHANGED reply
  /\ UNCHANGED <<client, buffer, read_index, start_line, checkstate>>
NoLine ==
  /\ pc = "parse" /\ Line.status # "LINE_OK"
  /\ checked_index' = Line.checked
  /\ IF Line.status = "LINE_OPEN" THEN pc' = "recv" /\ UNCHANGED reply ELSE Answer("bad")
  /\ UNCHANGED <<client, buffer, read_index, start_line, checkstate>>

CutOff ==
  /\ pc = "parse" /\ Line.status = "LINE_OK"
  /\ buffer' = CutLine(buffer, Line.checked)
  /\ checked_index' = Line.checked /\ start_line' = Line.checked
  /\ UNCHANGED <<client, read_index>>

\* parse_requestline
GotRequestLine ==
  /\ checkstate = "REQUESTLINE" /\ CutOff
  /\ IF LineText = <<"GET">> THEN checkstate' = "HEADER" /\ UNCHANGED <<pc, reply>>
                             ELSE Answer("bad") /\ UNCHANGED checkstate

\* parse_headers
GotHeader ==
  /\ checkstate = "HEADER" /\ CutOff
  /\ IF LineText = <<>> THEN Answer("good") ELSE UNCHANGED <<pc, reply>>
  /\ UNCHANGED checkstate

Server == (\E n \in 1 .. BufferSize : Recv(n)) \/ RecvNothing \/ NoLine \/ GotRequestLine \/ GotHeader

Next == (\E n \in 1 .. Len(stream) : Send(n)) \/ Shut \/ RecvFails \/ Server

\* The server runs; the client sends its bytes and closes in the end.
Spec == Init /\ [][Next]_vars /\ WF_vars(Server) /\ WF_vars(Shut)

(* -------------------------------- properties ------------------------------- *)

\* The buffer is never written behind its end.
TypeOK ==
  /\ Len(buffer) = read_index /\ read_index <= BufferSize /\ read_index <= sent
  /\ 0 <= start_line /\ start_line <= checked_index /\ checked_index <= read_index
  /\ checkstate \in {"REQUESTLINE", "HEADER"} /\ shut \in BOOLEAN
  /\ pc \in {"recv", "parse", "closed"} /\ reply \in {"none", "good", "bad"}

\* What should be answered to the bytes s, however recv cut them.
Meaning(s) == IF RequestIsBad(s) \/ HeaderIsBad(s) THEN "bad"
              ELSE IF BlankLines(s) # {} THEN "good"
              ELSE "none"

\* The answer, or that there is none, is that of the bytes received, looked at
\* as a whole: 2/GET_HOST_test.cpp keeps its parser's state across recv calls, and
\* its indices stay in the buffer.
AnswerIsMeaning ==
  /\ TypeOK
  /\ pc # "parse" => reply = Meaning(SubSeq(stream, 1, read_index))

\* The connection is closed in the end: the loop of main neither spins on a
\* stream that gives no more bytes or has no room, nor waits for a client gone.
Closes == <>[](pc = "closed")
=============================================================================
