------------------------------ MODULE MCRequest ------------------------------
(***************************************************************************)
(* Request with first lines that are complete and good, cut, or wrong in   *)
(* each of the ways ParseHeader tells apart, and later reads that cut a    *)
(* request inside an end of line, a name or a value.                       *)
(***************************************************************************)
EXTENDS Request

FirstLine(method, path, protocol) ==
  method \o <<SP>> \o path \o <<SP>> \o protocol

MC_FirstReads ==
  {FirstLine(<<"GET">>, <<"a">>, <<"HTTP/1.1">>) \o tail :
     tail \in {<<CR>>, <<CR, LF>>, <<CR, LF, "a", ":">>,
               <<CR, LF>> \o Length \o <<":", "2">>,
               <<CR, LF>> \o Type \o <<":", Multipart, "a", CR, LF>>}}
  \cup {FirstLine(<<"b">>, <<"a">>, <<"HTTP/1.1">>) \o EndOfLine,
        FirstLine(<<"GET">>, << >>, <<"HTTP/1.1">>) \o EndOfLine,
        FirstLine(<<"GET">>, <<"a">>, <<"b">>) \o EndOfLine,
        <<"GET", SP, "a">> \o EndOfLine,
        <<"GET">>, << >>}

MC_Reads ==
  {<<CR>>, <<LF>>, <<CR, LF>>, <<":">>, <<"a">>, <<"a", "--">>,
   <<"b", ":", SP, "a">>, <<CR, LF, CR, LF>>}
=============================================================================
