------------------------------ MODULE LineParser ------------------------------
(* The slave state machine that cuts a read buffer into lines (parse_line, the *)
(* same code in 2/GET_HOST_test.cpp and 7/http_conn.cpp), and what a request   *)
(* means when it is looked at as a whole.                                      *)
(*                                                                             *)
(* Text is abstracted to tokens: "GET" a good request line, "KA" the header    *)
(* that asks for keep-alive, "CL" a Content-Length header, "X" any other text. *)
(* "CR", "LF" and "NUL" are bytes.  Indices are C's: buf[i + 1] is byte i.     *)
EXTENDS Integers, Sequences, FiniteSets, FiniteSetsExt

Tokens == {"GET", "KA", "CL", "X"}
Symbols == Tokens \cup {"CR", "LF"}

\* The first byte from checked on that ends or spoils a line.
Stops(buf, read, checked) == {i \in checked .. read - 1 : buf[i + 1] \in {"CR", "LF"}}

\* Lines 20-43 and 97-131: status and m_checked_idx when the call returns.
\* A CR that is the last byte read leaves the line open, at the CR.
ParseLine(buf, read, checked) ==
  LET stops == Stops(buf, read, checked)
      i == Min(stops)
  IN  IF stops = {} THEN [status |-> "LINE_OPEN", checked |-> read]
      ELSE IF buf[i + 1] = "CR" /\ i + 1 = read
           THEN [status |-> "LINE_OPEN", checked |-> i]
      ELSE IF buf[i + 1] = "CR" /\ buf[i + 2] = "LF"
           THEN [status |-> "LINE_OK", checked |-> i + 2]
      ELSE IF buf[i + 1] = "LF" /\ i > 1 /\ buf[i] = "CR"
           THEN [status |-> "LINE_OK", checked |-> i + 1]
      ELSE [status |-> "LINE_BAD", checked |-> i]

\* LINE_OK overwrites the two bytes of the line end.
CutLine(buf, checked) == [buf EXCEPT ![checked - 1] = "NUL", ![checked] = "NUL"]

(* ---------------- the request as a whole, without a machine ---------------- *)

\* CR LF pairs, by the index of the CR
LineEnds(s) == {i \in 1 .. Len(s) - 1 : s[i] = "CR" /\ s[i + 1] = "LF"}

\* A CR without its LF or a LF without its CR.
BadAt(s, i) == \/ s[i] = "LF" /\ (i = 1 \/ s[i - 1] # "CR")
               \/ s[i] = "CR" /\ i < Len(s) /\ s[i + 1] # "LF"

\* Lines that end before anything bad
GoodEnds(s) == {i \in LineEnds(s) : \A j \in 1 .. i : ~BadAt(s, j)}

RequestIsBad(s) == GoodEnds(s) # {} /\ SubSeq(s, 1, Min(GoodEnds(s)) - 1) # <<"GET">>

\* A blank line ends the header
BlankLines(s) == {i \in GoodEnds(s) : i - 2 \in GoodEnds(s)}

\* The header lines that are complete, up to the first blank line
HeaderLines(s) ==
  {SubSeq(s, i + 2, Min({k \in GoodEnds(s) : k > i}) - 1) :
     i \in {e \in GoodEnds(s) : /\ \E k \in GoodEnds(s) : k > e
                                /\ \A b \in BlankLines(s) : e < b}}

HeaderIsBad(s) == BlankLines(s) = {} /\ \E j \in 1 .. Len(s) : BadAt(s, j)

\* Lines whose first token is the given one
HasHeader(s, token) == \E l \in HeaderLines(s) : l # <<>> /\ l[1] = token

BodyLength(s) == Len(s) - Min(BlankLines(s)) - 1
=============================================================================
