------------------------------- MODULE HttpParse -------------------------------
(* process_read of 7/http_conn.cpp as it meets the segments of one request:    *)
(* read() appends what has arrived, process_read goes on from m_checked_idx    *)
(* and m_check_state, one action per iteration of its loop.                    *)
EXTENDS LineParser

CONSTANTS Streams,        \* the byte streams a client may send, over Symbols
          ContentLength   \* the value a "CL" header carries

ASSUME StreamsAssumption == /\ Streams \subseteq Seq(Symbols)
                            /\ ContentLength \in Nat \ {0}

VARIABLES stream,          \* what this client sends
          buf, read_idx,   \* m_read_buf, m_read_idx
          checked_idx, start_line, check_state,
          content_length, is_linger,
          line_status,     \* local to process_read
          running,         \* process_read has not returned
          verdict          \* its last result; do_request stands for GET_REQUEST

vars == <<stream, buf, read_idx, checked_idx, start_line, check_state, content_length,
          is_linger, line_status, running, verdict>>
input == <<stream, read_idx>>

Init ==
  /\ stream \in Streams
  /\ buf = <<>> /\ read_idx = 0
  /\ checked_idx = 0 /\ start_line = 0
  /\ check_state = "REQUESTLINE"
  /\ content_length = 0 /\ is_linger = FALSE
  /\ line_status = "LINE_OK" /\ running = FALSE
  /\ verdict = "NO_REQUEST"

\* read() got n more bytes and a worker enters process_read.
Read(n) ==
  /\ ~running /\ verdict = "NO_REQUEST"
  /\ read_idx + n <= Len(stream)
  /\ buf' = buf \o SubSeq(stream, read_idx + 1, read_idx + n)
  /\ read_idx' = read_idx + n
  /\ line_status' = "LINE_OK" /\ running' = TRUE
  /\ UNCHANGED <<stream, checked_idx, start_line, check_state, content_length, is_linger,
                 verdict>>

Return(v) == running' = FALSE /\ verdict' = v

Line == ParseLine(buf, read_idx, checked_idx)
ExpectsLine == running /\ check_state # "CONTENT"

\* parse_line says LINE_OPEN or LINE_BAD: the loop ends, with NO_REQUEST
\* in both cases.
NoLine ==
  /\ ExpectsLine /\ Line.status # "LINE_OK"
  /\ checked_idx' = Line.checked
  /\ line_status' = Line.status
  /\ Return("NO_REQUEST")
  /\ UNCHANGED <<input, buf, start_line, check_state, content_length, is_linger>>

\* LINE_OK: text is the line, the next one starts behind it.
GotLine ==
  /\ ExpectsLine /\ Line.status = "LINE_OK"
  /\ buf' = CutLine(buf, Line.checked)
  /\ checked_idx' = Line.checked /\ start_line' = Line.checked
  /\ line_status' = "LINE_OK"
  /\ UNCHANGED input
LineText == SubSeq(buf, start_line + 1, Line.checked - 2)

\* parse_request_line
RequestLineGood == LineText = <<"GET">>
GotRequestLine ==
  /\ check_state = "REQUESTLINE" /\ GotLine
  /\ IF RequestLineGood
     THEN check_state' = "HEADER" /\ UNCHANGED <<running, verdict>>
     ELSE Return("BAD_REQUEST") /\ UNCHANGED check_state
  /\ UNCHANGED <<content_length, is_linger>>

\* parse_headers, a line that is not blank
GotHeader ==
  /\ check_state = "HEADER" /\ GotLine /\ LineText # <<>>
  /\ is_linger' = (is_linger \/ LineText = <<"KA">>)
  /\ content_length' = IF LineText[1] = "CL" THEN ContentLength ELSE content_length
  /\ UNCHANGED <<check_state, running, verdict>>

\* parse_headers, the blank line
GotBlankIgnoresBody ==
  /\ check_state = "HEADER" /\ GotLine /\ LineText = <<>>
  /\ Return("GET_REQUEST")
  /\ UNCHANGED <<check_state, content_length, is_linger>>
GotBlank ==
  /\ check_state = "HEADER" /\ GotLine /\ LineText = <<>>
  /\ IF content_length # 0
     THEN check_state' = "CONTENT" /\ UNCHANGED <<running, verdict>>
     ELSE Return("GET_REQUEST") /\ UNCHANGED check_state
  /\ UNCHANGED <<content_length, is_linger>>

\* parse_content; checked_idx stays at the first byte of the body, and text
\* is the body because start_line was moved there with the blank line.
BodyArrived == read_idx >= content_length + checked_idx
CutAt(i) == IF i < Len(buf) THEN [buf EXCEPT ![i + 1] = "NUL"] ELSE buf
GotContentKeepsGoing ==
  /\ running /\ check_state = "CONTENT" /\ line_status = "LINE_OK"
  /\ IF BodyArrived THEN buf' = CutAt(start_line + content_length) /\ Return("GET_REQUEST")
                    ELSE UNCHANGED <<buf, running, verdict>>
  /\ start_line' = checked_idx
  /\ UNCHANGED <<input, checked_idx, check_state, content_length, is_linger, line_status>>
GotContentCutsHead ==
  /\ running /\ check_state = "CONTENT" /\ line_status = "LINE_OK"
  /\ IF BodyArrived
     THEN buf' = CutAt(content_length) /\ Return("GET_REQUEST") /\ UNCHANGED line_status
     ELSE line_status' = "LINE_OPEN" /\ UNCHANGED <<buf, running, verdict>>
  /\ start_line' = checked_idx
  /\ UNCHANGED <<input, checked_idx, check_state, content_length, is_linger>>
GotContent ==
  /\ running /\ check_state = "CONTENT" /\ line_status = "LINE_OK"
  /\ IF BodyArrived
     THEN /\ buf' = CutAt(start_line + content_length)
          /\ Return("GET_REQUEST")
          /\ UNCHANGED line_status
     ELSE /\ line_status' = "LINE_OPEN"
          /\ UNCHANGED <<buf, running, verdict>>
  /\ start_line' = checked_idx
  /\ UNCHANGED <<input, checked_idx, check_state, content_length, is_linger>>

\* The body is not there yet.  The loop test then calls parse_line on the
\* body: line_status was LINE_OPEN, so its first operand is false.
ScanContent ==
  /\ running /\ check_state = "CONTENT" /\ line_status = "LINE_OPEN"
  /\ checked_idx' = Line.checked
  /\ line_status' = Line.status
  /\ IF Line.status = "LINE_OK"
     THEN buf' = CutLine(buf, Line.checked) /\ UNCHANGED <<running, verdict>>
     ELSE Return("NO_REQUEST") /\ UNCHANGED buf
  /\ UNCHANGED <<input, start_line, check_state, content_length, is_linger>>

ProcessRead == NoLine \/ GotRequestLine \/ GotHeader \/ GotBlank \/ GotContent \/ ScanContent

Next == (\E n \in 1 .. Len(stream) : Read(n)) \/ ProcessRead

\* A worker that entered process_read goes on; the client need not send.
Spec == Init /\ [][Next]_vars /\ WF_vars(ProcessRead)

(* -------------------------------- properties ------------------------------- *)

\* The indices stay in order, and nothing behind m_read_idx is looked at.
TypeOK ==
  /\ Len(buf) = read_idx /\ read_idx \in 0 .. Len(stream)
  /\ 0 <= start_line /\ start_line <= checked_idx /\ checked_idx <= read_idx
  /\ \A i \in 1 .. Len(buf) : buf[i] \in {stream[i], "NUL"}
  /\ check_state \in {"REQUESTLINE", "HEADER", "CONTENT"}
  /\ content_length \in {0, ContentLength} /\ is_linger \in BOOLEAN
  /\ line_status \in {"LINE_OK", "LINE_BAD", "LINE_OPEN"} /\ running \in BOOLEAN
  /\ verdict \in {"NO_REQUEST", "GET_REQUEST", "BAD_REQUEST"}

\* What process_read should say of the bytes s, however they arrived.
Meaning(s) ==
  IF RequestIsBad(s) THEN "BAD_REQUEST"
  ELSE IF BlankLines(s) # {} /\ (HasHeader(s, "CL") => BodyLength(s) >= ContentLength)
       THEN "GET_REQUEST"
  ELSE "NO_REQUEST"

Delivered == SubSeq(stream, 1, read_idx)
VerdictIsMeaning ==
  /\ verdict = Meaning(Delivered)
  /\ verdict = "GET_REQUEST" => is_linger = (<<"KA">> \in HeaderLines(Delivered))

\* A part of the body arrived, and parse_line went over it.
BodyCut == check_state = "CONTENT" /\ checked_idx > Min(BlankLines(Delivered)) + 1

\* Where the client's bytes are cut into segments makes no difference, unless
\* a cut is in the body: between two reads, the result and m_linger are those
\* of the bytes read so far, looked at as a whole, and the indices stay in order
\* (process_read).
FragmentationIndependence ==
  /\ TypeOK
  /\ ~running /\ ~BodyCut => VerdictIsMeaning

\* m_url and m_host point into lines already parsed: no later iteration, and no
\* later read(), writes to the bytes before m_start_line.
ParsedTextKept == [][\A i \in 1 .. start_line : buf'[i] = buf[i]]_vars

\* process_read returns, whatever arrived: no worker spins in its loop.
Returns == running ~> ~running
=============================================================================
