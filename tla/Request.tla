------------------------------- MODULE Request -------------------------------
(***************************************************************************)
(* The request parser of lib/ (request.go) on a connection whose bytes     *)
(* come in several reads, and the response it is answered with             *)
(* (response.go).  The repository's only caller is req_test in main.go:    *)
(* ParseHeader, then ParseBody, on one string.  Here it is called again    *)
(* with everything read so far, on the Req "saved in Event", until         *)
(* ParseHeader says OK; TryFixBody is given what is read after that.       *)
(*                                                                         *)
(* A byte is a token; the words the parser compares (a method, a protocol, *)
(* the names of two headers, the start of a multipart type) are one token  *)
(* each.                                                                   *)
(***************************************************************************)
EXTENDS Naturals, SequencesExt

CONSTANTS
  FirstReads,  \* what the first read may return, sequences of tokens
  Reads,       \* what a later one may return
  MaxReads     \* bound: the number of reads

ASSUME RequestAssumption == FirstReads \cup Reads \subseteq Seq(STRING)

CR == "\r"
LF == "\n"
SP == " "
Blank == {CR, LF, SP}
Methods == {<<"GET">>}
Protocols == {<<"HTTP/1.1">>}
Type == <<"Content-Type">>
Length == <<"Content-Length">>
Multipart == "multipart/form-data;boundary="
Digit == [d \in {"1", "2"} |-> IF d = "1" THEN 1 ELSE 2]
Numbers == {<<d>> : d \in DOMAIN Digit}
EndOfLine == <<CR, LF>>
EndOfHeader == <<CR, LF, CR, LF>>

VARIABLES
  buf,    \* everything read
  reads,  \* the number of reads
  code,   \* what ParseHeader returned last, or "panic"
  req,    \* the Req, but its body
  body,   \* its body
  valid   \* what RequestBodyValid returned last

vars == <<buf, reads, code, req, body, valid>>

-----------------------------------------------------------------------------
(* The functions of package strings.                                        *)

\* Where s has "\r\n".
Breaks(s) == {n \in 1 .. Len(s) - 1 : s[n] = CR /\ s[n + 1] = LF}

\* Split(s, "\r\n"): a line is named by the place where it begins.
Lines(s) == {1} \cup {n + 2 : n \in Breaks(s)}
LineEnd(s, p) == Min({n \in Breaks(s) : n >= p} \cup {Len(s) + 1})
Line(s, p) == SubSeq(s, p, LineEnd(s, p) - 1)

\* Split(s, " ").
Words(s) ==
  FoldLeft(LAMBDA acc, b : IF b = SP THEN Append(acc, << >>)
                           ELSE Front(acc) \o <<Append(Last(acc), b)>>,
           << << >> >>, s)

TrimSpace(s) ==
  LET kept == {n \in DOMAIN s : s[n] \notin Blank}
  IN IF kept = {} THEN << >> ELSE SubSeq(s, Min(kept), Max(kept))

\* SplitN(s, ":", 2): the place of the first colon, 0 when there is none.
Colon(s) == SelectInSeq(s, LAMBDA b : b = ":")
Key(line) == TrimSpace(SubSeq(line, 1, Colon(line) - 1))
Value(line) == TrimSpace(SubSeq(line, Colon(line) + 1, Len(line)))

ToUpper(b) == CASE b = "a" -> "A" [] b = "b" -> "B" [] OTHER -> b

Capital(key) == <<ToUpper(Head(key))>> \o Tail(key)

\* The places where sub begins in s, counted from 0.
Places(s, sub) == {n \in 0 .. Len(s) - Len(sub) :
                     SubSeq(s, n + 1, n + Len(sub)) = sub}

-----------------------------------------------------------------------------
(* ParseHeader and ByteRow.                                                 *)

ReqInit == [Method |-> << >>, Path |-> << >>, Protocol |-> << >>,
            Headers |-> << >>]

\* The key of the header at p.
Name(s, p) == Capital(Key(Line(s, p)))

\* Mutant: a header that is there already is kept.
BugSet(headers, s, lines) ==
  [key \in DOMAIN headers \cup {Name(s, p) : p \in lines} |->
     IF key \in DOMAIN headers THEN headers[key]
     ELSE Value(Line(s, Min({p \in lines : Name(s, p) = key})))]

\* r.Headers after the lines: for a key that comes twice the last one counts.
Set(headers, s, lines) ==
  LET setting(key) == {p \in lines : Name(s, p) = key}
  IN [key \in DOMAIN headers \cup {Name(s, p) : p \in lines} |->
        IF setting(key) = {} THEN headers[key]
        ELSE Value(Line(s, Max(setting(key))))]

\* Whether the line at p is the empty line that ends the header.
Ends(s, p) == Line(s, p) = << >> /\ LineEnd(s, p) \in Breaks(s)

\* The lines at which ParseHeader's loop returns.  An empty key makes key[:1]
\* panic.
Stops(s) ==
  {p \in Lines(s) \ {1} :
     \/ Ends(s, p)
     \/ Colon(Line(s, p)) = 0
     \/ Key(Line(s, p)) = << >>}

\* What the loop returns.
Verdict(s) ==
  LET stop == Min(Stops(s))
  IN IF Stops(s) = {} THEN "NeedReadMore"
     ELSE IF Ends(s, stop) THEN "OK"
     ELSE IF Colon(Line(s, stop)) = 0 THEN "InvalidHeaders" ELSE "panic"

\* The lines the loop goes past.
Passed(s) == {p \in Lines(s) \ {1} : \A stop \in Stops(s) : p < stop}

\* Mutant: a first line is judged before it is complete.
BugCut(s) == FALSE

\* Whether the first line is not complete.
Cut(s) == Breaks(s) = {}

\* ParseHeader on r: the verdict, and r with what has been set by then.
ParseHeader(r, s) ==
  LET words == Words(Line(s, 1))
      m == [r EXCEPT !.Method = words[1]]
      p == [m EXCEPT !.Path = words[2]]
      f == [p EXCEPT !.Protocol = words[3]]
  IN IF s = << >> THEN <<"None", r>>
     ELSE IF Cut(s) THEN <<"UnknowInvalid", r>>
     ELSE IF Len(words) # 3 THEN <<"FirstLineInvalid", r>>
     ELSE IF words[1] \notin Methods THEN <<"MethodInvalid", r>>
     ELSE IF words[2] = << >> THEN <<"PathInvalid", m>>
     ELSE IF words[3] \notin Protocols THEN <<"ProtocolInvalid", p>>
     ELSE IF Breaks(s) = {LineEnd(s, 1)} THEN <<"NeedReadMore", f>>
     ELSE <<Verdict(s), [f EXCEPT !.Headers = Set(r.Headers, s, Passed(s))]>>

\* The orders in which range may go through a map.
Orders(headers) ==
  {keys \in [1 .. Cardinality(DOMAIN headers) -> DOMAIN headers] :
     IsInjective(keys)}

\* Mutant: a line ends in LF alone.
BugFields(headers, keys) ==
  FoldLeft(LAMBDA acc, key :
             acc \o key \o <<":", SP>> \o headers[key] \o <<LF>>,
           << >>, keys)

Fields(headers, keys) ==
  FoldLeft(LAMBDA acc, key :
             acc \o key \o <<":", SP>> \o headers[key] \o EndOfLine,
           << >>, keys)

ByteRow(r, keys, content) ==
  r.Method \o <<SP>> \o r.Path \o <<SP>> \o r.Protocol \o EndOfLine
    \o Fields(r.Headers, keys) \o EndOfLine \o content

-----------------------------------------------------------------------------
(* The body.                                                                *)

\* Mutant: the search also ends at an end of line and a bare CR.
BugBodyStart(s) ==
  LET found == Places(s, <<CR, LF, CR>>)
  IN Min(found \cup {Len(s) - 4}) + 4

\* Where ParseBody finds the body: behind the first CRLFCRLF, looked for at the
\* places before the last four bytes.
BodyStart(s) ==
  LET found == Places(s, EndOfHeader) \cap 0 .. Len(s) - 5
  IN Min(found \cup {Len(s) - 4}) + 4

ParseBody(s) == SubSeq(s, BodyStart(s) + 1, Len(s))

\* Less than four bytes make ParseBody's slice panic.
BodyPanics(s) == Len(s) < 4

GetHeader(r, key) == IF key \in DOMAIN r.Headers THEN r.Headers[key] ELSE << >>

\* A Content-Length that is no number panics.
RequestBodyValid(r, content) ==
  LET type == GetHeader(r, Type)
      length == GetHeader(r, Length)
      po == SelectInSeq(type, LAMBDA b : b = Multipart)
      boundary == SubSeq(type, po + 1, Len(type))
      holds == \/ po # 0 /\ Places(content, boundary \o <<"--">>) # {}
               \/ po = 0 /\ length = << >>
               \/ po = 0 /\ length \in Numbers
                    /\ Len(content) = Digit[length[1]]
  IN IF po = 0 /\ length # << >> /\ length \notin Numbers THEN "panic"
     ELSE IF holds THEN "yes" ELSE "no"

-----------------------------------------------------------------------------
(* response.go                                                              *)

GenerateResponse(firstLine, headers, keys, content) ==
  firstLine \o EndOfLine \o Fields(headers, keys) \o EndOfLine \o content

\* The lines HttpResParse goes through: up to the first empty one.
HeadLines(s) ==
  {p \in Lines(s) \ {1} :
     \A q \in Lines(s) \ {1} : Line(s, q) = << >> => p < q}

\* HttpResParse: FirstLine (its first three words) and Headers; a line without
\* a colon panics.
HttpResParse(s) ==
  LET words == Words(Line(s, 1))
      last(key) == Max({p \in HeadLines(s) : Key(Line(s, p)) = key})
  IN IF s = << >> THEN "None"
     ELSE IF Len(words) < 3 THEN "FirstLineInvalid"
     ELSE IF \E p \in HeadLines(s) : Colon(Line(s, p)) = 0 THEN "panic"
     ELSE <<words[1] \o <<SP>> \o words[2] \o <<SP>> \o words[3],
            [key \in {Key(Line(s, p)) : p \in HeadLines(s)} |->
               Value(Line(s, last(key)))]>>

-----------------------------------------------------------------------------
Init ==
  /\ buf = << >> /\ reads = 0 /\ code = "None" /\ req = ReqInit
  /\ body = << >> /\ valid = "no"

Read(chunk) ==
  /\ reads < MaxReads /\ code # "panic" /\ valid # "panic"
  /\ reads' = reads + 1
  /\ buf' = buf \o chunk

\* req_test on everything read, whatever it found before; RequestBodyValid
\* once the header is OK.
Parse(chunk) ==
  /\ code # "OK"
  /\ Read(chunk)
  /\ LET parsed == ParseHeader(req, buf')
         panics == parsed[1] = "panic" \/ BodyPanics(buf')
     IN /\ req' = parsed[2]
        /\ code' = IF panics THEN "panic" ELSE parsed[1]
        /\ body' = IF panics THEN body ELSE ParseBody(buf')
  /\ valid' = IF code' = "OK" THEN RequestBodyValid(req', body') ELSE "no"

TryFixBody(chunk) ==
  /\ code = "OK"
  /\ Read(chunk)
  /\ body' = body \o chunk
  /\ valid' = RequestBodyValid(req, body')
  /\ UNCHANGED <<code, req>>

Next ==
  \/ \E chunk \in IF reads = 0 THEN FirstReads ELSE Reads : Parse(chunk)
  \/ \E chunk \in Reads : TryFixBody(chunk)

Spec == Init /\ [][Next]_vars

-----------------------------------------------------------------------------
(* Properties.                                                              *)

\* A request that is OK is the one ParseHeader, ParseBody and RequestBodyValid
\* would find in all the bytes at once: calling ParseHeader on a Req that
\* earlier calls filled from a line cut in the middle leaves nothing stale in
\* r.Headers, and TryFixBody loses nothing.
SameAsOnce ==
  code = "OK" =>
    /\ ParseHeader(ReqInit, buf) = <<"OK", req>>
    /\ body = ParseBody(buf)
    /\ valid = RequestBodyValid(req, ParseBody(buf))

\* ParseHeader splits lines and ParseBody searches bytes, and they agree: the
\* body of a request that is OK begins behind the line that ended the header.
BodyFollowsHeader ==
  code = "OK" =>
    LET last == Min({p \in Lines(buf) \ {1} : Line(buf, p) = << >>})
    IN body = SubSeq(buf, last + 2, Len(buf))

\* What ByteRow writes for a request that is OK, whatever the order of its
\* headers, is read back by ParseHeader and ParseBody as the same request; what
\* GenerateResponse writes for a status of one word, with the headers and the
\* body of the request, is read back by HttpResParse.
WritersReadBack ==
  code = "OK" =>
    LET line == <<"HTTP/1.1", SP, "1", SP, "a">>
    IN \A keys \in Orders(req.Headers) :
         LET row == ByteRow(req, keys, body)
         IN /\ ParseHeader(ReqInit, row) = <<"OK", req>>
            /\ ParseBody(row) = body
            /\ HttpResParse(GenerateResponse(line, req.Headers, keys, body))
                 = <<line, req.Headers>>

\* A first line that ParseHeader refuses is refused for good: no later bytes
\* make it acceptable, so the caller may answer at once.
RefusedForGood ==
  [][(code \in {"FirstLineInvalid", "MethodInvalid", "PathInvalid",
                "ProtocolInvalid"}) => (code' = code)]_vars
=============================================================================
