----------------------------- MODULE StreamSelector -----------------------------
(***************************************************************************)
(* StreamSelector: what the client asks of the server for one station, as  *)
(* read from a line of the initialization file (fromString) and as written *)
(* to the server (getSelector).                                            *)
(*                                                                         *)
(* A line is its words and the set of those with more than one blank in    *)
(* front that fromString does not collapse: it erases repeated spaces, but *)
(* neither repeated tabs nor a tab beside a space, and splits at each.     *)
(* What getSelector writes is the triple of its parts, Blank for a part    *)
(* left out.  No channel word begins with a location word, so that the     *)
(* parts of two texts are equal when the texts are.                        *)
(***************************************************************************)
EXTENDS Naturals, Sequences, FiniteSets

CONSTANTS
  Words,     \* the words lines are made of
  Size,      \* std::string::size of a word
  Upper      \* std::transform with ::toupper of a word

Blank == ""

ASSUME WordsAssumption ==
  /\ {"*", "??", "D", "d"} \subseteq Words
  /\ Blank \notin Words
  /\ Size \in [Words -> Nat \ {0}]
  /\ Upper \in [Words -> Words]
  /\ Upper["*"] = "*" /\ Upper["D"] = "D" /\ Upper["d"] = "D"

Fields == Words \cup {Blank}
SizeOf(field) == IF field = Blank THEN 0 ELSE Size[field]
ToUpper(field) == IF field = Blank THEN Blank ELSE Upper[field]

\* StreamSelector::Type, and the letter getSelector writes for each.
TypeCode == [All |-> "*", Data |-> "D", Timing |-> "T", Log |-> "L",
             Event |-> "E", Blockette |-> "B", Calibration |-> "C"]
Types == DOMAIN TypeCode

Selectors == [mNetwork : Fields, mStation : Fields, mChannel : Fields,
              mLocationCode : Fields, mType : Types, mNoLocationCode : BOOLEAN]

\* The constructor, and what clear() goes back to.
NewSelector == [mNetwork |-> Blank, mStation |-> "*", mChannel |-> Blank,
                mLocationCode |-> Blank, mType |-> "All",
                mNoLocationCode |-> FALSE]

SetNetwork(s, network) == [s EXCEPT !.mNetwork = ToUpper(network)]
SetStation(s, station) == [s EXCEPT !.mStation = ToUpper(station)]

\* The overload without a location code forgets the one of an earlier call.
SetChannel(s, channel, type) ==
  [s EXCEPT !.mChannel = ToUpper(channel), !.mLocationCode = Blank,
            !.mNoLocationCode = TRUE, !.mType = type]

SetSelector(s, channel, location, type) ==
  [s EXCEPT !.mChannel = ToUpper(channel), !.mLocationCode = location,
            !.mNoLocationCode = FALSE, !.mType = type]

\* Location, channel and type as written to the server.
GetSelector(s) ==
  LET bare == s.mLocationCode = Blank /\ s.mChannel = Blank
  IN << IF s.mLocationCode = Blank /\ ~bare /\ ~s.mNoLocationCode
          THEN "??" ELSE s.mLocationCode,
        IF s.mChannel = Blank /\ ~(bare /\ s.mType = "All")
          THEN "*" ELSE s.mChannel,
        IF bare /\ s.mType = "All" THEN Blank ELSE TypeCode[s.mType] >>

-----------------------------------------------------------------------------
(* fromString *)

Lines == [words : Seq(Words), tabbed : SUBSET (Nat \ {0, 1})]

\* boost::split: one field per word, and an empty one more in front of a word
\* with a second blank; a blank line is one empty field.
Split(line) ==
  LET place(i) == i + Cardinality(line.tabbed \cap 1..i)
      word(k) == CHOOSE i \in DOMAIN line.words : place(i) = k
  IN IF line.words = <<>> THEN <<Blank>>
     ELSE [k \in 1..place(Len(line.words)) |->
             IF \E i \in DOMAIN line.words : place(i) = k
             THEN line.words[word(k)] ELSE Blank]

\* A slip: what is not known is taken for data, the setters' default.
DataByDefault(field) == IF field \in {"A", "a"} THEN "All" ELSE "Data"

\* getDataType: everything but D is All.
GetDataType(field) == IF field \in {"D", "d"} THEN "Data" ELSE "All"

\* An empty line, a network that is not two characters long, no station (the
\* test in front of at(1) looks at the length of the text, so at(1) throws), or
\* an empty one.
FromStringThrows(line) ==
  LET f == Split(line)
  IN \/ SizeOf(f[1]) # 2
     \/ Len(f) < 2
     \/ f[2] = Blank

FromString(line) ==
  LET f == Split(line)
      n == Len(f)
      named == SetStation(SetNetwork(NewSelector, f[1]), f[2])
      channel == IF n > 2 THEN f[3] ELSE "*"
  IN IF n > 4 THEN SetSelector(named, channel, f[4], GetDataType(f[n]))
     ELSE IF n = 4 /\ SizeOf(f[4]) <= 1
       THEN SetChannel(named, channel, GetDataType(f[4]))
     ELSE SetSelector(named, channel, IF n = 4 THEN f[4] ELSE "??", "All")

-----------------------------------------------------------------------------
(* What a line and a selector stand for: sets of streams. *)

Everything == {Blank, "*", "??", "**"}
Matching(pattern, universe) ==
  IF pattern \in Everything THEN universe ELSE {pattern} \cap universe

Codes == {TypeCode[type] : type \in Types} \ {"*"}
Streams == Words \X Words \X Codes

\* The streams of the station a server sends for a selector.
Selected(s) ==
  LET text == GetSelector(s)
  IN {x \in Streams : /\ x[1] \in Matching(text[1], Words)
                      /\ x[2] \in Matching(text[2], Words)
                      /\ x[3] \in Matching(text[3], Codes)}

\* The streams a line names by the format the header gives: network, station,
\* channel, location, type, what follows the station optional, and a fourth
\* word a location when it is longer than a type.
Named(line) ==
  LET w == line.words
      n == Len(w)
      located == n > 4 \/ (n = 4 /\ Size[w[4]] > 1)
      typed == n > 4 \/ (n = 4 /\ Size[w[4]] = 1)
      code == IF typed THEN Upper[w[n]] ELSE "*"
  IN {x \in Streams :
        /\ x[1] \in Matching(IF located THEN w[4] ELSE Blank, Words)
        /\ x[2] \in Matching(IF n > 2 THEN Upper[w[3]] ELSE Blank, Words)
        /\ code \in Codes => x[3] = code}
=============================================================================
