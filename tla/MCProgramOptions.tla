--------------------------- MODULE MCProgramOptions ---------------------------
(***************************************************************************)
(* Initialization files: those that differ in the GRPC section, and those  *)
(* that differ in the SEEDLink section.                                    *)
(***************************************************************************)
EXTENDS ProgramOptions, TLC

MCSize == [w \in {"*", "1", "D", "d", "A", "T"} |-> 1]
          @@ [w \in {"UU", "uu", "??", "01"} |-> 2]
          @@ [w \in {"HHZ", "hhz"} |-> 3]
          @@ [w \in {"FORK", "fork"} |-> 4]
MCWords == DOMAIN MCSize
MCUpper == [w \in MCWords |->
              CASE w = "uu" -> "UU" [] w = "hhz" -> "HHZ" [] w = "fork" -> "FORK"
                [] w = "d" -> "D" [] OTHER -> w]

Line(words) == [words |-> words, tabbed |-> {}]

\* What a line may have behind its network and station: every format of the
\* header, an unknown type, a location of one character, small letters.
Tails == {<<>>, <<"HHZ">>, <<"hhz">>, <<"*">>, <<"HHZ", "01">>, <<"HHZ", "1">>,
          <<"HHZ", "D">>, <<"HHZ", "d">>, <<"HHZ", "T">>, <<"HHZ", "A">>,
          <<"HHZ", "01", "D">>, <<"hhz", "01", "d">>, <<"HHZ", "01", "T">>,
          <<"HHZ", "??", "D">>, <<"HHZ", "1", "A">>}
Good == {Line(<<"UU", "FORK">> \o tail) : tail \in Tails}
Odd == {Line(<<>>), Line(<<"UU">>), Line(<<"FORK", "UU">>),
        Line(<<"uu", "fork", "hhz", "01">>),
        [words |-> <<"UU", "FORK", "HHZ", "D">>, tabbed |-> {4}],
        [words |-> <<"UU", "FORK", "HHZ", "01">>, tabbed |-> {3}],
        [words |-> <<"UU", "FORK">>, tabbed |-> {2}]}

\* One number with one or two selectors, two numbers, or a gap between them.
SelectorLists ==
  LET lines == Good \cup Odd
  IN {<<>>} \cup {<<<<a, b>>>> : a, b \in lines}
            \cup {<<<<a>>, <<>>, <<b>>>> : a, b \in lines}

Plain == [grpcHost |-> "name", grpcPort |-> None, named |-> {}, token |-> None,
          host |-> None, stateFile |-> FALSE, deleteOnStart |-> FALSE,
          deleteOnStop |-> FALSE, selectors |-> <<>>]

GRPCInis == [grpcHost : Hosts, grpcPort : {None, 0, 1}, named : SUBSET FileNames,
             token : {None, "empty", "token"}, host : {None}, stateFile : {FALSE},
             deleteOnStart : {FALSE}, deleteOnStop : {FALSE}, selectors : {<<>>}]

SEEDLinkInis ==
  {[Plain EXCEPT !.host = "name", !.selectors = q] : q \in SelectorLists}
  \cup {[Plain EXCEPT !.host = h, !.stateFile = s, !.deleteOnStart = a,
                      !.deleteOnStop = b, !.selectors = <<<<Line(<<"UU", "FORK">>)>>>>]
          : h \in Hosts, s, a, b \in BOOLEAN}

MCInis == GRPCInis \cup SEEDLinkInis
=============================================================================
