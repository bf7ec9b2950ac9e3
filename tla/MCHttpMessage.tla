--------------------------- MODULE MCHttpMessage ---------------------------
(* The texts HttpMessage is checked with. *)
EXTENDS HttpMessage

\* A name, or two words; a value or none; a path or none; every flag.
SomeCookies ==
    [name : {<<"n">>, <<"n", "sp", "sid">>}, value : {<<>>, <<"v">>}, path : {<<>>, <<"/">>},
     httpOnly : BOOLEAN, secure : BOOLEAN]

SomeLines ==
    {Line(<<"n">>, <<"v">>), Line(<<"n">>, <<"v", "sp", ":", "v">>)}
        \cup {CookieLine(c) : c \in SomeCookies}

SomeBodies == {<<>>, <<"v">>, <<"cr", "lf", "v">>}

\* Messages of up to two lines.
SomeMessages == [lines : SeqOf(SomeLines, 2), body : SomeBodies]

\* Anything for a status line, for what follows it, and for a cookie.
SomeNoise ==
    SeqOf({"HTTP/1.1", "sp", "cr", "n"}, 4)
        \cup {StatusLineText \o s : s \in SeqOf({"cr", "lf", "sp", ":", "n"}, 4)}
        \cup {StatusLineText \o <<"Set-Cookie", ":">> \o s :
                  s \in SeqOf({"cr", "sp", ";", "=", "Path", "Secure"}, 5)}

=============================================================================
