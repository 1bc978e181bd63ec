------------------------------- MODULE MCGetHost -------------------------------
EXTENDS GetHost

Eol == <<"CR", "LF">>
FirstLines == {<<"GET">> \o Eol, <<"X">> \o Eol, Eol, <<"GET", "CR", "X">>, <<"GET", "LF">>}
HeaderLine == {<<>>, <<"X">> \o Eol, Eol, <<"X", "CR", "X">>, <<"LF">>, <<"CR">>}

\* Some of them longer than the buffer
Requests == {l \o h1 \o h2 : l \in FirstLines, h1 \in HeaderLine, h2 \in HeaderLine}
=============================================================================
