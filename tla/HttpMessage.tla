---------------------------- MODULE HttpMessage ----------------------------
(***************************************************************************)
(* The response parser of the HTTP message library, 7/server_full: the     *)
(* status line, one header per turn of a loop, a cookie inside a           *)
(* Set-Cookie header with one flag per turn of a loop of its own, the body.*)
(*                                                                         *)
(* A text is a sequence of tokens: the characters the parser looks for     *)
(* ("cr", "lf", "sp", ":", ";", "=") and words, which hold none of them.   *)
(* A position past the last token is the terminating zero.                 *)
(*                                                                         *)
(* What the parser makes of a text is what it calls the setters of         *)
(* Response with.  The setters themselves are declared in Response.h:70-75 *)
(* and defined nowhere, so that nothing is said of what a Response keeps.  *)
(***************************************************************************)
EXTENDS Integers, Sequences, FiniteSetsExt, SequencesExt

CONSTANTS Messages,  \* messages a server sends: headers, cookies and body
          Noise      \* texts that are no message

VARIABLES text,     \* the text parsed
          message,  \* ghost: the message it was made of, or <<>>
          phase,    \* where parseResponse is, and how it ended
          ch,       \* position in text
          flags,    \* the cookie being parsed: its text, position and fields
          calls,    \* for each turn of the loop so far, a line: the arguments of headerIs
                    \* and, once a cookie is parsed, of cookies
          data      \* the argument of dataIs

messageVars == <<text, message, phase, ch, flags, calls, data>>

Space == {"cr", "lf", "sp"}

-----------------------------------------------------------------------------
(* Scanning: the position where a scan from i stops *)

Until(s, i, stops) ==
    Min({j \in i .. (Len(s) + 1) : j = Len(s) + 1 \/ s[j] \in stops})

While(s, i, set) ==
    Min({j \in i .. (Len(s) + 1) : j = Len(s) + 1 \/ s[j] \notin set})

After(s, i) == IF i <= Len(s) THEN i + 1 ELSE i

Word(s, i) == SubSeq(s, i, Until(s, i, Space) - 1)

NextWord(s, i) == While(s, Until(s, i, Space), Space)

CrLf(s, i) == While(s, After(s, Until(s, i, {"cr"})), Space \ {"cr"})

-----------------------------------------------------------------------------
(* Cookies *)

NameEnd(s, i) == Until(s, i, {"="} \cup Space)
ValueEnd(s, i) == Until(s, i, {";", "="})

\* The assertion in parseSeparator.
Separates(s, i) == i <= Len(s) => s[i] \in {";", "="}

Separator(s, i) == IF i > Len(s) THEN i ELSE While(s, i + 1, Space)

NoCookie == [name |-> <<>>, value |-> <<>>, path |-> <<>>, httpOnly |-> FALSE, secure |-> FALSE]
NoFlags == [text |-> <<>>, at |-> 1, cookie |-> NoCookie]

Abort == phase' = "aborted" /\ UNCHANGED flags

\* The name and the value, up to the flags.
BeginCookie ==
    LET s == flags.text
        nameEnd == NameEnd(s, 1)
        value == Separator(s, nameEnd)
        valueEnd == ValueEnd(s, value)
    IN /\ phase = "name"
       /\ IF Separates(s, nameEnd) /\ Separates(s, valueEnd)
          THEN /\ flags' = [flags EXCEPT !.at = Separator(s, valueEnd),
                                        !.cookie.name = SubSeq(s, 1, nameEnd - 1),
                                        !.cookie.value = SubSeq(s, value, valueEnd - 1)]
               /\ phase' = "cookie"
          ELSE Abort
       /\ UNCHANGED <<text, message, ch, calls, data>>

\* Faulty variant of Flagged: a flag takes back the one before it.
FlaggedLast(cookie, flag) ==
    [cookie EXCEPT !.httpOnly = (flag = <<"HttpOnly">>), !.secure = (flag = <<"Secure">>)]

Flagged(cookie, flag) ==
    [cookie EXCEPT !.httpOnly = @ \/ flag = <<"HttpOnly">>, !.secure = @ \/ flag = <<"Secure">>]

\* Faulty variant of CookieFlag: a flag that is not known is not passed over.
CookieFlagKnown ==
    LET s == flags.text
        end == ValueEnd(s, flags.at)
        flag == SubSeq(s, flags.at, end - 1)
    IN /\ phase = "cookie" /\ flags.at <= Len(s)
       /\ flags' = [flags EXCEPT !.cookie = Flagged(@, flag),
                                 !.at = IF flag \in {<<"HttpOnly">>, <<"Secure">>}
                                        THEN Separator(s, end) ELSE @]
       /\ UNCHANGED <<text, message, phase, ch, calls, data>>

\* One turn of the loop: Path takes the next value, whatever separates the two.
CookieFlag ==
    LET s == flags.text
        end == ValueEnd(s, flags.at)
        flag == SubSeq(s, flags.at, end - 1)
        path == Separator(s, end)
        pathEnd == ValueEnd(s, path)
        last == IF flag = <<"Path">> THEN pathEnd ELSE end
    IN /\ phase = "cookie" /\ flags.at <= Len(s)
       /\ IF Separates(s, end) /\ Separates(s, last)
          THEN /\ flags' = [flags EXCEPT
                    !.at = Separator(s, last),
                    !.cookie = IF flag = <<"Path">>
                               THEN [@ EXCEPT !.path = SubSeq(s, path, pathEnd - 1)]
                               ELSE Flagged(@, flag)]
               /\ UNCHANGED phase
          ELSE Abort
       /\ UNCHANGED <<text, message, ch, calls, data>>

\* The response is given the cookie, and the header's line is left.
EndCookie ==
    /\ phase = "cookie" /\ flags.at > Len(flags.text)
    /\ calls' = [calls EXCEPT ![Len(calls)].cookie = flags.cookie]
    /\ ch' = CrLf(text, ch)
    /\ flags' = NoFlags
    /\ phase' = "headers"
    /\ UNCHANGED <<text, message, data>>

-----------------------------------------------------------------------------
(* parseResponse *)

\* The status line: version, code and the rest of the line.
StatusLine ==
    LET code == NextWord(text, 1)
        rest == NextWord(text, code)
    IN /\ phase = "start"
       /\ IF Word(text, 1) = <<"HTTP/1.1">>
          THEN phase' = "headers" /\ ch' = CrLf(text, Until(text, rest, {"cr"}))
          ELSE phase' = "failed" /\ UNCHANGED ch
       /\ UNCHANGED <<text, message, flags, calls, data>>

MoreHeaders == phase = "headers" /\ ch <= Len(text) /\ text[ch] # "cr"

ValueStart(i) == While(text, After(text, i), Space)

\* A line of a message is a name and a value, or a cookie.
Line(name, value) == [name |-> name, value |-> value, cookie |-> NoCookie]

headerIs(name, value) == calls' = Append(calls, Line(name, value))

\* One turn of the loop.  ch is left at the end of the value until the line is
\* left, after the cookie if it brings one.
HeaderLine ==
    /\ MoreHeaders
    /\ \E nameEnd \in {Until(text, ch, {":"})} :
       \E start \in {ValueStart(nameEnd)} :
       \E end \in {Until(text, start, {"cr"})} :
          LET name == SubSeq(text, ch, nameEnd - 1)
              value == SubSeq(text, start, end - 1)
          IN /\ headerIs(name, value)
             /\ IF name = <<"Set-Cookie">>
                THEN /\ flags' = [NoFlags EXCEPT !.text = value]
                     /\ phase' = "name" /\ ch' = end
                ELSE UNCHANGED <<phase, flags>> /\ ch' = CrLf(text, end)
    /\ UNCHANGED <<text, message, data>>

Body ==
    /\ phase = "headers" /\ ~MoreHeaders
    /\ data' = SubSeq(text, CrLf(text, ch), Len(text))
    /\ phase' = "done"
    /\ UNCHANGED <<text, message, ch, flags, calls>>

\* parseResponse has returned, has thrown, or the process is aborted.
Returned == phase \in {"done", "failed", "aborted"} /\ UNCHANGED messageVars

-----------------------------------------------------------------------------
(* Messages as a server writes them *)

StatusLineText == <<"HTTP/1.1", "sp", "200", "sp", "OK", "cr", "lf">>

CookieText(cookie) ==
    cookie.name \o <<"=">> \o cookie.value
        \o (IF cookie.path = <<>> THEN <<>> ELSE <<";", "sp", "Path", "=">> \o cookie.path)
        \o (IF cookie.httpOnly THEN <<";", "sp", "HttpOnly">> ELSE <<>>)
        \o (IF cookie.secure THEN <<";", "sp", "Secure">> ELSE <<>>)

CookieLine(cookie) ==
    [name |-> <<"Set-Cookie">>, value |-> CookieText(cookie), cookie |-> cookie]

LineText(line) == line.name \o <<":", "sp">> \o line.value \o <<"cr", "lf">>

MessageText(m) ==
    StatusLineText \o FlattenSeq([i \in DOMAIN m.lines |-> LineText(m.lines[i])])
                   \o <<"cr", "lf">> \o m.body

-----------------------------------------------------------------------------
(* The messages of Messages: the scan for a name, a value or a flag stops at its *)
(* end, and those that skip white space skip none that belongs to what is sent. *)

Words == {"HTTP/1.1", "200", "OK", "Set-Cookie", "Path", "HttpOnly", "Secure"} \cup STRING
Text == Seq(Space \cup {":", ";", "="} \cup Words)
Without(s, stops) == \A i \in DOMAIN s : s[i] \notin stops
BeginsWithout(s, stops) == s # <<>> => s[1] \notin stops

CookieType == [name : Text, value : Text, path : Text, httpOnly : BOOLEAN, secure : BOOLEAN]

IsCookie(cookie) ==
    /\ cookie.name # <<>> /\ Without(cookie.name, {"=", "cr"}) /\ BeginsWithout(cookie.name, Space)
    /\ \A s \in {cookie.value, cookie.path} :
          Without(s, {";", "=", "cr"}) /\ BeginsWithout(s, Space)

IsLine(line) ==
    \/ line = CookieLine(line.cookie) /\ IsCookie(line.cookie)
    \/ /\ line = Line(line.name, line.value)
       /\ line.name \notin {<<>>, <<"Set-Cookie">>} /\ line.value # <<>>
       /\ Without(line.name, {":"}) /\ BeginsWithout(line.name, Space)
       /\ Without(line.value, {"cr"}) /\ BeginsWithout(line.value, Space)

LineType == [name : Text, value : Text, cookie : CookieType]

ASSUME MessageAssumption ==
    \A m \in Messages :
        /\ m \in [lines : Seq(LineType), body : Text]
        /\ \A i \in DOMAIN m.lines : IsLine(m.lines[i])
        /\ BeginsWithout(m.body, Space \ {"cr"})

-----------------------------------------------------------------------------

Parsing == StatusLine \/ HeaderLine \/ BeginCookie \/ CookieFlag \/ EndCookie \/ Body

MessageInit ==
    /\ \/ \E m \in Messages : message = <<m>> /\ text = MessageText(m)
       \/ message = <<>> /\ text \in Noise
    /\ phase = "start" /\ ch = 1
    /\ flags = NoFlags
    /\ calls = <<>> /\ data = <<>>

MessageSpec ==
    /\ MessageInit /\ [][Parsing \/ Returned]_messageVars
    /\ WF_messageVars(Parsing)

-----------------------------------------------------------------------------
(* Properties *)

\* A message that a server writes is read as it was written: Response is given each
\* header, with every cookie its value and flags, and the body; unless there is
\* white space in the name of a cookie, where the assertion in parseSeparator ends
\* the process.  MessageAssumption says what else may stand in a message: no header
\* has an empty value, no cookie a "=" in its value, and the body does not begin
\* with a space or a line feed (Response.cpp:22-50, Cookie.cpp:20-55).
ParsedAsSent ==
    message # <<>> =>
        LET lines == message[1].lines
        IN /\ phase # "failed"
           /\ phase = "aborted" =>
                 Len(calls) \in DOMAIN lines /\ ~Without(lines[Len(calls)].cookie.name, Space)
           /\ phase = "done" => calls = lines /\ data = message[1].body

\* The parser comes to an end with every text (Response.cpp:33, Cookie.cpp:41).
ParserReturns == <>(phase \in {"done", "failed", "aborted"})

=============================================================================
