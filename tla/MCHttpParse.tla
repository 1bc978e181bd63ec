------------------------------ MODULE MCHttpParse ------------------------------
EXTENDS HttpParse

Eol == <<"CR", "LF">>
FirstLines == {<<"GET">> \o Eol, <<"X">> \o Eol, Eol, <<"GET", "CR", "X">>, <<"GET", "LF">>}
HeaderLine == {<<>>, <<"KA">> \o Eol, <<"CL">> \o Eol, <<"X", "KA">> \o Eol, Eol,
               <<"KA", "CR", "X">>, <<"X", "LF">>}
LastLines == {<<>>, <<"CL">> \o Eol, Eol}

\* A request line, up to three headers, some of them spoilt, and bytes behind
Requests == {l \o h1 \o h2 \o h3 \o body :
               l \in FirstLines, h1 \in HeaderLine, h2 \in HeaderLine, h3 \in LastLines,
               body \in {<<>>, <<"X", "X">>, Eol}}

Header == <<"GET">> \o Eol \o <<"CL">> \o Eol \o Eol

\* Bodies that hold line ends themselves
Bodies == {Header \o b1 \o b2 \o b3 :
             b1 \in {<<>>, <<"X">>, Eol}, b2 \in {<<"X">>, Eol, <<"CR">>},
             b3 \in {<<>>, Eol, <<"X", "LF">>, <<"KA">> \o Eol \o Eol}}

Everything == Requests \cup Bodies
=============================================================================
