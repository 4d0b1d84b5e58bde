------------------------- MODULE ProgramOptionsProofs -------------------------
(***************************************************************************)
(* Proofs about what the components are given, for every set of words and  *)
(* every initialization file, however many selectors it has and whatever   *)
(* happens to the files it names.                                          *)
(***************************************************************************)
EXTENDS ProgramOptions, FiniteSetTheorems, TLAPS

-----------------------------------------------------------------------------
(* Lines and selectors. *)

\* Splitting a line gives at least one field.
LEMMA SplitFields ==
  ASSUME NEW line \in Lines
  PROVE  Split(line) \in Seq(Fields) /\ Len(Split(line)) >= 1
<1> DEFINE words == line.words
           before(i) == line.tabbed \cap 1..i
           place(i) == i + Cardinality(before(i))
           word(k) == CHOOSE i \in DOMAIN words : place(i) = k
<1>1. words \in Seq(Words)
  BY DEF Lines
<1>2. ASSUME NEW i \in Nat PROVE place(i) \in Nat /\ place(i) >= i
  <2>1. IsFiniteSet(1..i)
    BY FS_Interval
  <2>2. IsFiniteSet(before(i))
    BY <2>1, FS_Subset
  <2>3. Cardinality(before(i)) \in Nat
    BY <2>2, FS_CardinalityType
  <2>4. QED
    BY <2>3
<1>3. CASE words = <<>>
  BY <1>3 DEF Split, Fields
<1>4. CASE words # <<>>
  <2> DEFINE n == place(Len(words))
             field(k) == IF \E i \in DOMAIN words : place(i) = k
                         THEN words[word(k)] ELSE Blank
  <2>1. Len(words) \in Nat /\ Len(words) >= 1
    BY <1>1, <1>4
  <2>2. n \in Nat /\ n >= 1
    BY <1>2, <2>1
  <2>3. ASSUME NEW k \in 1..n PROVE field(k) \in Fields
    <3>1. CASE \E i \in DOMAIN words : place(i) = k
      <4>1. word(k) \in DOMAIN words
        BY <3>1
      <4> HIDE DEF word
      <4>2. words[word(k)] \in Words
        BY <4>1, <1>1
      <4>3. QED
        BY <4>2, <3>1 DEF Fields
    <3>2. CASE ~\E i \in DOMAIN words : place(i) = k
      BY <3>2 DEF Fields
    <3>3. QED
      BY <3>1, <3>2
  <2>4. Split(line) = [k \in 1..n |-> field(k)]
    BY <1>4 DEF Split
  <2> HIDE DEF n, field
  <2>5. Split(line) \in [1..n -> Fields]
    BY <2>3, <2>4
  <2>6. QED
    BY <2>2, <2>5
<1>5. QED
  BY <1>3, <1>4

\* Without repeated tabs the fields are the words.
LEMMA SplitWords ==
  ASSUME NEW line \in Lines, line.tabbed = {}, line.words # <<>>
  PROVE  Split(line) = line.words
<1> DEFINE words == line.words
           place(i) == i + Cardinality(line.tabbed \cap 1..i)
           word(k) == CHOOSE i \in DOMAIN words : place(i) = k
<1>1. words \in Seq(Words)
  BY DEF Lines
<1>2. ASSUME NEW i \in Nat PROVE place(i) = i
  <2>1. line.tabbed \cap 1..i = {}
    OBVIOUS
  <2>2. Cardinality({}) = 0
    BY FS_EmptySet
  <2>3. QED
    BY <2>1, <2>2
<1>3. Len(words) \in Nat /\ DOMAIN words = 1..Len(words)
  BY <1>1
<1>4. Split(line) = [k \in 1..place(Len(words)) |->
                       IF \E i \in DOMAIN words : place(i) = k
                       THEN words[word(k)] ELSE Blank]
  BY DEF Split
<1> HIDE DEF place, words
<1>5. ASSUME NEW k \in 1..Len(words)
      PROVE  (\E i \in DOMAIN words : place(i) = k) /\ word(k) = k
  BY <1>2, <1>3
<1> HIDE DEF word
<1>6. Split(line) = [k \in 1..Len(words) |-> words[k]]
  BY <1>2, <1>3, <1>4, <1>5
<1>7. QED
  BY <1>1, <1>3, <1>6 DEF words

LEMMA ToUpperField == ASSUME NEW f \in Fields PROVE ToUpper(f) \in Fields
BY WordsAssumption DEF ToUpper, Fields

LEMMA FromStringType ==
  ASSUME NEW line \in Lines, ~FromStringThrows(line)
  PROVE  FromString(line) \in Selectors
<1> DEFINE f == Split(line)
           n == Len(f)
           named == SetStation(SetNetwork(NewSelector, f[1]), f[2])
           channel == IF n > 2 THEN f[3] ELSE "*"
<1>1. f \in Seq(Fields) /\ n \in Nat /\ n >= 2
  BY SplitFields DEF FromStringThrows
<1> HIDE DEF f
<1>2. \A i \in 1..n : f[i] \in Fields
  BY <1>1
<1>3. "*" \in Fields /\ "??" \in Fields /\ Blank \in Fields
  BY WordsAssumption DEF Fields
<1>4. named \in Selectors
  <2>1. "All" \in Types
    BY DEF Types, TypeCode
  <2>2. NewSelector \in Selectors
    BY <2>1, <1>3 DEF Selectors, NewSelector
  <2>3. ToUpper(f[1]) \in Fields /\ ToUpper(f[2]) \in Fields
    BY <1>1, <1>2, ToUpperField
  <2>4. SetNetwork(NewSelector, f[1]) \in Selectors
    BY <2>2, <2>3 DEF Selectors, SetNetwork
  <2>5. QED
    BY <2>3, <2>4 DEF Selectors, SetStation
<1>5. channel \in Fields
  BY <1>1, <1>2, <1>3
<1> HIDE DEF named, channel
<1>6. \A field : GetDataType(field) \in Types
  BY DEF GetDataType, Types, TypeCode
<1>7. ASSUME NEW location \in Fields, NEW type \in Types
      PROVE  /\ SetSelector(named, channel, location, type) \in Selectors
             /\ SetChannel(named, channel, type) \in Selectors
  BY <1>3, <1>4, <1>5, ToUpperField DEF Selectors, SetSelector, SetChannel
<1>8. "All" \in Types
  BY DEF Types, TypeCode
<1>9. FromString(line) =
        IF n > 4 THEN SetSelector(named, channel, f[4], GetDataType(f[n]))
        ELSE IF n = 4 /\ SizeOf(f[4]) <= 1
          THEN SetChannel(named, channel, GetDataType(f[4]))
        ELSE SetSelector(named, channel, IF n = 4 THEN f[4] ELSE "??", "All")
  BY DEF FromString, named, channel, f
<1>10. n >= 4 => f[4] \in Fields
  BY <1>1, <1>2
<1>11. QED
  BY <1>1, <1>3, <1>6, <1>7, <1>8, <1>9, <1>10

\* The heart of NeverTooNarrow: what the selector of a line asks for includes
\* what the line names.
LEMMA LineKept ==
  ASSUME NEW line \in Lines, line.tabbed = {}, ~FromStringThrows(line)
  PROVE  Named(line) \subseteq Selected(FromString(line))
<1> DEFINE w == line.words
           n == Len(w)
           s == FromString(line)
           text == GetSelector(s)
           located == n > 4 \/ (n = 4 /\ Size[w[4]] > 1)
           typed == n > 4 \/ (n = 4 /\ Size[w[4]] = 1)
           code == IF typed THEN Upper[w[n]] ELSE "*"
           base == SetStation(SetNetwork(NewSelector, w[1]), w[2])
           channel == IF n > 2 THEN w[3] ELSE "*"
<1>1. w \in Seq(Words) /\ w # <<>>
  <2>1. w = <<>> => Len(Split(line)) < 2
    BY DEF Split
  <2>2. QED
    BY <2>1 DEF FromStringThrows, Lines
<1>2. Split(line) = w
  BY <1>1, SplitWords
<1>3. n \in Nat /\ n >= 2 /\ \A i \in 1..n : w[i] \in Words /\ Size[w[i]] \in Nat \ {0}
  <2>1. n \in Nat /\ n >= 2
    BY <1>1, <1>2 DEF FromStringThrows
  <2>2. ASSUME NEW i \in 1..n PROVE w[i] \in Words /\ Size[w[i]] \in Nat \ {0}
    <3>1. w[i] \in Words
      BY <1>1, <2>1
    <3>2. QED
      BY <3>1, WordsAssumption
  <2>3. QED
    BY <2>1, <2>2
<1>4. s = IF n > 4 THEN SetSelector(base, channel, w[4], GetDataType(w[n]))
          ELSE IF n = 4 /\ SizeOf(w[4]) <= 1
            THEN SetChannel(base, channel, GetDataType(w[4]))
          ELSE SetSelector(base, channel, IF n = 4 THEN w[4] ELSE "??", "All")
  BY <1>2 DEF FromString
<1>5. Named(line) = {x \in Streams :
        /\ x[1] \in Matching(IF located THEN w[4] ELSE Blank, Words)
        /\ x[2] \in Matching(IF n > 2 THEN Upper[w[3]] ELSE Blank, Words)
        /\ code \in Codes => x[3] = code}
  BY DEF Named
<1>6. Selected(s) = {x \in Streams : /\ x[1] \in Matching(text[1], Words)
                                     /\ x[2] \in Matching(text[2], Words)
                                     /\ x[3] \in Matching(text[3], Codes)}
  BY DEF Selected
<1>7. channel \in Words /\ ToUpper(channel) = Upper[channel]
      /\ ToUpper(channel) \in Words /\ ToUpper(channel) # Blank
  <2>1. channel \in Words
    BY <1>3, WordsAssumption
  <2>2. QED
    BY <2>1, WordsAssumption DEF ToUpper
<1>8. base \in Selectors
  <2>1. "All" \in Types
    BY DEF Types, TypeCode
  <2>2. NewSelector \in Selectors
    BY <2>1, WordsAssumption DEF Selectors, NewSelector, Fields
  <2>3. ToUpper(w[1]) \in Fields /\ ToUpper(w[2]) \in Fields
    BY <1>3, ToUpperField DEF Fields
  <2>4. SetNetwork(NewSelector, w[1]) \in Selectors
    BY <2>2, <2>3 DEF Selectors, SetNetwork
  <2>5. QED
    BY <2>3, <2>4 DEF Selectors, SetStation
<1>9. typed <=> n > 4 \/ (n = 4 /\ SizeOf(w[4]) <= 1)
  <2>1. n = 4 => SizeOf(w[4]) = Size[w[4]] /\ Size[w[4]] \in Nat \ {0}
    <3>1. n = 4 => w[4] \in Words /\ Size[w[4]] \in Nat \ {0}
      BY <1>3
    <3>2. \A x \in Words : SizeOf(x) = Size[x]
      BY WordsAssumption DEF SizeOf
    <3> HIDE DEF w, n
    <3>3. QED
      BY <3>1, <3>2
  <2> HIDE DEF w, n
  <2>2. QED
    BY <1>3, <2>1
<1> HIDE DEF w, n, s, text, base, channel
\* What the selector holds.
<1>10. /\ s.mChannel = ToUpper(channel)
       /\ s.mType = IF typed THEN GetDataType(w[n]) ELSE "All"
       /\ s.mLocationCode = IF located THEN w[4]
                            ELSE IF typed THEN Blank ELSE "??"
       /\ ~typed => s.mLocationCode # Blank
  <2>1. \A location, type :
          /\ SetSelector(base, channel, location, type).mChannel = ToUpper(channel)
          /\ SetSelector(base, channel, location, type).mLocationCode = location
          /\ SetSelector(base, channel, location, type).mType = type
          /\ SetChannel(base, channel, type).mChannel = ToUpper(channel)
          /\ SetChannel(base, channel, type).mLocationCode = Blank
          /\ SetChannel(base, channel, type).mType = type
    BY <1>8 DEF Selectors, SetSelector, SetChannel
  <2>2. n = 4 => (located <=> ~typed)
    BY <1>3
  <2>3. CASE n > 4
    BY <2>1, <2>3, <1>3, <1>4
  <2>4. CASE n = 4 /\ typed
    BY <2>1, <2>2, <2>4, <1>3, <1>4, <1>9
  <2>5. CASE n = 4 /\ ~typed
    <3>1. w[4] # Blank
      BY <2>5, <1>3, WordsAssumption
    <3>2. QED
      BY <3>1, <2>1, <2>2, <2>5, <1>3, <1>4, <1>9
  <2>6. CASE n < 4
    <3>1. "??" # Blank
      BY DEF Blank
    <3>2. QED
      BY <3>1, <2>1, <2>6, <1>3, <1>4, <1>9
  <2>7. QED
    BY <2>3, <2>4, <2>5, <2>6, <1>3
\* What is written to the server.
<1>11. /\ text[1] \in {s.mLocationCode, "??"}
       /\ s.mLocationCode # Blank => text[1] = s.mLocationCode
       /\ text[2] = ToUpper(channel)
       /\ text[3] = TypeCode[s.mType]
  BY <1>7, <1>10 DEF GetSelector, text
<1>12. Matching("??", Words) = Words /\ Matching(Blank, Words) = Words
       /\ Matching("*", Words) = Words /\ Matching("*", Codes) = Codes
  BY DEF Matching, Everything
<1>13. ASSUME NEW x \in Named(line)
       PROVE  x[1] \in Matching(text[1], Words)
  <2>1. x \in Streams /\ x[1] \in Words
    BY <1>5 DEF Streams
  <2>2. CASE located
    BY <2>2, <1>3, <1>5, <1>10, <1>11, WordsAssumption
  <2>3. CASE ~located
    BY <2>1, <2>3, <1>10, <1>11, <1>12
  <2>4. QED
    BY <2>2, <2>3
<1>14. ASSUME NEW x \in Named(line)
       PROVE  x[2] \in Matching(text[2], Words)
  <2>1. x[2] \in Words
    BY <1>5 DEF Streams
  <2>2. CASE n > 2
    BY <2>2, <1>5, <1>7, <1>11 DEF channel
  <2>3. CASE ~(n > 2)
    BY <2>1, <2>3, <1>7, <1>11, <1>12, WordsAssumption DEF channel
  <2>4. QED
    BY <2>2, <2>3
<1>15. ASSUME NEW x \in Named(line)
       PROVE  x[3] \in Matching(text[3], Codes)
  <2>1. x[3] \in Codes /\ (code \in Codes => x[3] = code)
    BY <1>5 DEF Streams
  <2>2. TypeCode["All"] = "*" /\ TypeCode["Data"] = "D" /\ "D" \in Codes
    BY DEF TypeCode, Types, Codes
  <2>3. CASE typed /\ w[n] \in {"D", "d"}
    <3>1. text[3] = "D"
      BY <2>2, <2>3, <1>10, <1>11 DEF GetDataType
    <3>2. code = "D"
      BY <2>3, WordsAssumption
    <3>3. QED
      BY <3>1, <3>2, <2>1, <2>2 DEF Matching
  <2>4. CASE ~(typed /\ w[n] \in {"D", "d"})
    <3>1. text[3] = "*"
      BY <2>2, <2>4, <1>10, <1>11 DEF GetDataType
    <3>2. QED
      BY <3>1, <2>1, <1>12
  <2>5. QED
    BY <2>3, <2>4
<1>16. Named(line) \subseteq Streams
  BY <1>5
<1>17. QED
  BY <1>6, <1>13, <1>14, <1>15, <1>16 DEF s

-----------------------------------------------------------------------------
(* Types. *)

LEMMA IniType ==
  ASSUME TypeOK
  PROVE  /\ ini.selectors \in Seq(Seq(Lines))
         /\ ini.grpcPort \in Nat \cup {None}
         /\ \A i \in 1..Len(ini.selectors) : ini.selectors[i] \in Seq(Lines)
BY DEF TypeOK, IniFiles

LEMMA TypeInit == Init => TypeOK
<1> SUFFICES ASSUME Init PROVE TypeOK
  OBVIOUS
<1>1. ini \in IniFiles
  BY InisAssumption DEF Init
<1>2. Len(ini.selectors) \in Nat
  BY <1>1 DEF IniFiles
<1>3. client \in [mHost : {"default", "name"}, mStateFile : BOOLEAN,
                  mDeleteStateFileOnStart : BOOLEAN,
                  mDeleteStateFileOnStop : BOOLEAN, mSelectors : Seq(Selectors)]
  BY DEF Init, NewClientOptions
<1>4. grpc \in [mHost : {"default", "name"}, mPort : Nat,
                mServerCertificate : BOOLEAN, mAccessToken : BOOLEAN,
                mClientKey : BOOLEAN, mClientCertificate : BOOLEAN]
  BY DEF Init, NewGRPCOptions
<1>5. QED
  BY <1>1, <1>2, <1>3, <1>4 DEF Init, TypeOK

\* A step of getGRPCOptions.
LEMMA TypeGRPC ==
  ASSUME TypeOK, GRPCNext
  PROVE  TypeOK'
<1> DEFINE pcs == {"ini", "host", "certificate", "loadCertificate", "token",
                   "clientKey", "clientCertificate", "loadKey", "loadClient", "over",
                   "seedlink", "stateFile", "selectors", "done", "threw"}
<1>1. pc' \in pcs
  BY DEF GRPCNext, GRPCStep, Throws, Goto, GRPCAddress, CheckServerCertificate,
         LoadServerCertificate, ReadAccessToken, CheckClientKey,
         CheckClientCertificate, LoadClientKey, LoadClientCertificate,
         GRPCOptionsRead
<1>2. UNCHANGED <<ini, files, pass, client, loopVars>>
  BY DEF GRPCNext, GRPCStep, Throws, Goto, GRPCAddress, CheckServerCertificate,
         LoadServerCertificate, ReadAccessToken, CheckClientKey,
         CheckClientCertificate, LoadClientKey, LoadClientCertificate,
         GRPCOptionsRead
<1> DEFINE options == [mHost : {"default", "name"}, mPort : Nat,
                       mServerCertificate : BOOLEAN, mAccessToken : BOOLEAN,
                       mClientKey : BOOLEAN, mClientCertificate : BOOLEAN]
<1>3. grpc \in options
  BY DEF TypeOK
<1>4. grpc' \in options
  <2>1. CASE GRPCAddress
    <3>1. NewGRPCOptions \in options
      BY DEF NewGRPCOptions
    <3> DEFINE port == IF ini.grpcPort = None THEN NewGRPCOptions.mPort
                       ELSE ini.grpcPort
               host == IF ini.grpcHost = None THEN NewGRPCOptions.mHost ELSE "name"
    <3>2. port \in Nat /\ host \in {"default", "name"}
      BY <3>1, IniType DEF NewGRPCOptions
    <3>3. grpc' \in {grpc, [NewGRPCOptions EXCEPT !.mHost = host, !.mPort = port]}
      BY <2>1 DEF GRPCAddress, Throws
    <3> HIDE DEF port, host
    <3>4. QED
      BY <3>1, <3>2, <3>3, <1>3
  <2>2. CASE LoadServerCertificate \/ ReadAccessToken \/ LoadClientKey
             \/ LoadClientCertificate
    BY <2>2, <1>3 DEF LoadServerCertificate, ReadAccessToken, LoadClientKey,
                      LoadClientCertificate, Throws
  <2>3. CASE CheckServerCertificate \/ CheckClientKey \/ CheckClientCertificate
             \/ GRPCOptionsRead
    BY <2>3, <1>3 DEF CheckServerCertificate, CheckClientKey,
                      CheckClientCertificate, GRPCOptionsRead, Throws
  <2>4. QED
    BY <2>1, <2>2, <2>3 DEF GRPCNext
<1>5. QED
  BY <1>1, <1>2, <1>4 DEF TypeOK, loopVars

\* A step of getSEEDLinkOptions.
LEMMA TypeSEEDLink ==
  ASSUME TypeOK, SEEDLinkNext
  PROVE  TypeOK'
<1> DEFINE options == [mHost : {"default", "name"}, mStateFile : BOOLEAN,
                       mDeleteStateFileOnStart : BOOLEAN,
                       mDeleteStateFileOnStop : BOOLEAN,
                       mSelectors : Seq(Selectors)]
<1>1. client \in options
  BY DEF TypeOK
<1>2. ini \in IniFiles /\ ini.deleteOnStart \in BOOLEAN /\ ini.deleteOnStop \in BOOLEAN
  BY DEF TypeOK, IniFiles
<1>3. iSelector \in Nat /\ iPiece \in Nat \ {0} /\ Len(ini.selectors) \in Nat
  BY <1>2 DEF TypeOK, IniFiles
<1>4. ASSUME UNCHANGED <<ini, files, grpc>>, pass' \in {1, 2}, client' \in options,
             pc' \in {"host", "stateFile", "selectors", "threw"},
             iSelector' \in 1..(Len(ini.selectors) + 1), iPiece' \in Nat \ {0}
      PROVE  TypeOK'
  BY <1>4 DEF TypeOK
<1>5. iSelector \in 1..(Len(ini.selectors) + 1) /\ pass \in {1, 2}
  BY DEF TypeOK
<1> HIDE DEF TypeOK
<1>6. CASE SEEDLinkHost
  BY <1>1, <1>3, <1>4, <1>5, <1>6 DEF SEEDLinkHost, Goto, loopVars
<1>7. CASE StateFile
  <2>1. client' \in options
    BY <1>1, <1>2, <1>7 DEF StateFile, DeleteFlags
  <2>2. QED
    BY <2>1, <1>3, <1>4, <1>5, <1>7 DEF StateFile, Goto, loopVars
<1>8. CASE AddStreamSelector
  <2> DEFINE line == ini.selectors[iSelector][iPiece]
  <2>1. line \in Lines
    <3>1. ini.selectors[iSelector] \in Seq(Lines)
      BY <1>2, <1>3, <1>8, IniType DEF AddStreamSelector, AtPiece, TypeOK
    <3>2. QED
      BY <3>1, <1>3, <1>8 DEF AddStreamSelector, AtPiece
  <2>2. client' \in options
    <3>1. CASE FromStringThrows(line)
      BY <1>1, <1>8, <3>1 DEF AddStreamSelector
    <3>2. CASE ~FromStringThrows(line)
      <4>1. FromString(line) \in Selectors
        BY <2>1, <3>2, FromStringType
      <4>2. Append(client.mSelectors, FromString(line)) \in Seq(Selectors)
        BY <4>1, <1>1
      <4>3. client' \in {client, [client EXCEPT !.mSelectors =
                                    Append(@, FromString(line))]}
        BY <1>8 DEF AddStreamSelector
      <4> HIDE DEF line
      <4>4. QED
        BY <4>2, <4>3, <1>1
    <3>3. QED
      BY <3>1, <3>2
  <2>3. iPiece' \in {iPiece, iPiece + 1}
    BY <1>8 DEF AddStreamSelector
  <2>4. UNCHANGED <<ini, files, grpc, pass, iSelector>>
        /\ pc' \in {"selectors", "threw"}
    BY <1>8 DEF AddStreamSelector, Goto
  <2>5. QED
    BY <2>2, <2>3, <2>4, <1>3, <1>4, <1>5
<1>9. CASE NextSelector
  BY <1>1, <1>3, <1>4, <1>5, <1>9 DEF NextSelector, Goto
<1>10. CASE SEEDLinkOptionsRead
  BY <1>1, <1>3, <1>4, <1>5, <1>10 DEF SEEDLinkOptionsRead, Goto, loopVars
<1>11. QED
  BY <1>6, <1>7, <1>8, <1>9, <1>10 DEF SEEDLinkNext

LEMMA TypeIniFile ==
  ASSUME TypeOK, ReadIniFile
  PROVE  TypeOK'
BY DEF TypeOK, ReadIniFile, GRPCStep, Goto, loopVars

LEMMA TypeFiles ==
  ASSUME TypeOK, FileChanges
  PROVE  TypeOK'
<1>1. files' \in [FileNames -> FileStates]
  BY DEF TypeOK, FileChanges
<1>2. UNCHANGED <<ini, pc, pass, grpc, client, iSelector, iPiece>>
  BY DEF FileChanges, loopVars
<1>3. QED
  BY <1>1, <1>2 DEF TypeOK

\* Types, for every initialization file and every length of its lists.
THEOREM TypeCorrect == Spec => []TypeOK
<1>1. TypeOK /\ [Next]_vars => TypeOK'
  <2> SUFFICES ASSUME TypeOK, [Next]_vars PROVE TypeOK'
    OBVIOUS
  <2>1. CASE UNCHANGED vars
    BY <2>1 DEF TypeOK, vars, loopVars
  <2>2. QED
    BY <2>1, TypeIniFile, TypeGRPC, TypeSEEDLink, TypeFiles DEF Next
<1>2. QED
  BY <1>1, TypeInit, PTL DEF Spec

-----------------------------------------------------------------------------
(* The channel. *)

\* What is known at each point is kept when a step touches neither the file nor
\* the settings and goes to a point where no more is known than before.
LEMMA ChannelInvPassed ==
  ASSUME ChannelInv, UNCHANGED <<ini, grpc>>,
         pc' \in {"ini", "seedlink", "stateFile", "selectors"} => pass' = 1,
         pc' = "loadCertificate" => "certificate" \in ini.named,
         pc' \in {"certificate", "loadCertificate"}
           => pc \in {"certificate", "loadCertificate"},
         pc' = "token" => pc = "token",
         AddressRead' => AddressRead,
         CertificateRead' => CertificateRead,
         TokenRead' => TokenRead
  PROVE  ChannelInv'
BY DEF ChannelInv, ConfiguredAddress

LEMMA ChannelInvAddress ==
  ASSUME TypeOK, ChannelInv, GRPCAddress
  PROVE  ChannelInv'
<1>1. UNCHANGED ini /\ pc' \in {"certificate", "threw"}
  BY DEF GRPCAddress, Throws, GRPCStep, Goto
<1>2. pc' = "certificate" => /\ ~grpc'.mServerCertificate /\ ~grpc'.mAccessToken
                             /\ <<grpc'.mHost, grpc'.mPort>> = ConfiguredAddress
  <2> DEFINE port == IF ini.grpcPort = None THEN NewGRPCOptions.mPort
                     ELSE ini.grpcPort
             host == IF ini.grpcHost = None THEN NewGRPCOptions.mHost ELSE "name"
  <2>1. pc' = "certificate" =>
          grpc' = [NewGRPCOptions EXCEPT !.mHost = host, !.mPort = port]
    BY DEF GRPCAddress, Throws, GRPCStep, Goto
  <2>2. ConfiguredAddress = <<host, port>>
    BY DEF ConfiguredAddress, NewGRPCOptions
  <2> HIDE DEF port, host
  <2> DEFINE set == [NewGRPCOptions EXCEPT !.mHost = host, !.mPort = port]
  <2>3. set.mHost = host /\ set.mPort = port
    BY DEF NewGRPCOptions
  <2>4. set.mServerCertificate = FALSE /\ set.mAccessToken = FALSE
    BY DEF NewGRPCOptions
  <2>5. QED
    BY <2>1, <2>2, <2>3, <2>4
<1>3. QED
  BY <1>1, <1>2 DEF ChannelInv, AddressRead, CertificateRead, TokenRead,
                    IniFileRead, ConfiguredAddress

\* The setters touch their own setting only.
LEMMA SettersApart ==
  ASSUME TypeOK
  PROVE  LET certified == [grpc EXCEPT !.mServerCertificate = TRUE]
             trusted == [grpc EXCEPT !.mAccessToken = TRUE]
             keyed == [grpc EXCEPT !.mClientKey = TRUE]
             paired == [grpc EXCEPT !.mClientCertificate = TRUE]
         IN /\ certified.mServerCertificate
            /\ certified.mAccessToken = grpc.mAccessToken
            /\ trusted.mAccessToken
            /\ trusted.mServerCertificate = grpc.mServerCertificate
            /\ \A options \in {keyed, paired} :
                 /\ options.mServerCertificate = grpc.mServerCertificate
                 /\ options.mAccessToken = grpc.mAccessToken
            /\ \A options \in {certified, trusted, keyed, paired} :
                 options.mHost = grpc.mHost /\ options.mPort = grpc.mPort
BY DEF TypeOK

LEMMA ChannelInvCertificate ==
  ASSUME TypeOK, ChannelInv, LoadServerCertificate
  PROVE  ChannelInv'
<1>1. UNCHANGED ini /\ pc = "loadCertificate" /\ pc' \in {"token", "threw"}
  BY DEF LoadServerCertificate, Throws, GRPCStep, Goto
<1>2. pc' = "token" => grpc' = [grpc EXCEPT !.mServerCertificate = TRUE]
  BY DEF LoadServerCertificate, Throws, GRPCStep, Goto
<1>3. pc' = "token" => /\ grpc'.mServerCertificate /\ ~grpc'.mAccessToken
                       /\ "certificate" \in ini.named
                       /\ <<grpc'.mHost, grpc'.mPort>> = ConfiguredAddress
  BY <1>1, <1>2, SettersApart DEF ChannelInv, AddressRead
<1>4. QED
  BY <1>1, <1>3 DEF ChannelInv, AddressRead, CertificateRead, TokenRead, IniFileRead,
                    ConfiguredAddress

LEMMA ChannelInvToken ==
  ASSUME TypeOK, ChannelInv, ReadAccessToken
  PROVE  ChannelInv'
<1>1. UNCHANGED ini /\ pc = "token" /\ pc' \in {"clientKey", "threw"}
  BY DEF ReadAccessToken, Throws, GRPCStep, Goto
<1>2. /\ grpc.mServerCertificate <=> "certificate" \in ini.named
      /\ ~grpc.mAccessToken
      /\ <<grpc.mHost, grpc.mPort>> = ConfiguredAddress
  BY <1>1 DEF ChannelInv, AddressRead, CertificateRead
<1>3. pc' = "clientKey" =>
        /\ grpc'.mServerCertificate = grpc.mServerCertificate
        /\ grpc'.mAccessToken <=> ini.token # None
        /\ grpc'.mAccessToken => grpc'.mServerCertificate
        /\ grpc'.mHost = grpc.mHost /\ grpc'.mPort = grpc.mPort
  <2>1. CASE ini.token = None
    <3>1. grpc' = grpc
      BY <2>1, InisAssumption DEF ReadAccessToken
    <3>2. QED
      BY <1>2, <2>1, <3>1
  <2>2. CASE ini.token # None /\ pc' = "clientKey"
    <3>1. ini.token = "token" /\ grpc.mServerCertificate
          /\ grpc' = [grpc EXCEPT !.mAccessToken = TRUE]
      BY <2>2 DEF ReadAccessToken, Throws, GRPCStep, Goto
    <3>2. QED
      BY <2>2, <3>1, SettersApart
  <2>3. QED
    BY <2>1, <2>2
<1>4. QED
  BY <1>1, <1>2, <1>3 DEF ChannelInv, AddressRead, CertificateRead, TokenRead,
                          IniFileRead, ConfiguredAddress

LEMMA ChannelInvClient ==
  ASSUME TypeOK, ChannelInv, LoadClientKey \/ LoadClientCertificate
  PROVE  ChannelInv'
<1>1. UNCHANGED ini /\ pc \in {"loadKey", "loadClient"}
      /\ pc' \in {"loadClient", "over", "threw"}
  BY DEF LoadClientKey, LoadClientCertificate, Throws, GRPCStep, Goto
<1>2. \/ grpc' = grpc
      \/ grpc' = [grpc EXCEPT !.mClientKey = TRUE]
      \/ grpc' = [grpc EXCEPT !.mClientCertificate = TRUE]
  BY DEF LoadClientKey, LoadClientCertificate, Throws
<1>3. /\ grpc'.mServerCertificate = grpc.mServerCertificate
      /\ grpc'.mAccessToken = grpc.mAccessToken
      /\ grpc'.mHost = grpc.mHost /\ grpc'.mPort = grpc.mPort
  BY <1>2, SettersApart
<1>4. QED
  BY <1>1, <1>3 DEF ChannelInv, AddressRead, CertificateRead, TokenRead, IniFileRead,
                    ConfiguredAddress

LEMMA ChannelInvNext ==
  ASSUME TypeOK, ChannelInv, [Next]_vars
  PROVE  ChannelInv'
<1> USE DEF AddressRead, CertificateRead, TokenRead, IniFileRead
<1>1. CASE ReadIniFile
  <2>1. UNCHANGED <<ini, grpc, pass>> /\ pc = "ini" /\ pc' \in {"host", "done", "threw"}
    BY <1>1 DEF ReadIniFile, GRPCStep, Goto
  <2>2. pass = 1
    BY <2>1 DEF ChannelInv
  <2>3. QED
    BY <2>1, <2>2, ChannelInvPassed
<1>2. CASE CheckServerCertificate
  <2>1. /\ UNCHANGED <<ini, grpc>> /\ pc = "certificate"
        /\ \/ pc' = "threw"
           \/ pc' = "loadCertificate" /\ "certificate" \in ini.named
           \/ pc' = "token" /\ "certificate" \notin ini.named
    BY <1>2 DEF CheckServerCertificate, Throws, GRPCStep, Goto
  <2>2. QED
    BY <2>1 DEF ChannelInv, ConfiguredAddress
<1>3. CASE CheckClientKey \/ CheckClientCertificate
  <2>1. UNCHANGED <<ini, grpc>> /\ pc \in {"clientKey", "clientCertificate"}
        /\ pc' \in {"clientCertificate", "loadKey", "over", "threw"}
    BY <1>3 DEF CheckClientKey, CheckClientCertificate, Throws, GRPCStep, Goto
  <2>2. QED
    BY <2>1, ChannelInvPassed
<1>4. CASE GRPCOptionsRead
  <2>1. /\ UNCHANGED <<ini, grpc, pass>> /\ pc = "over"
        /\ pc' = IF pass = 1 THEN "seedlink" ELSE "done"
    BY <1>4 DEF GRPCOptionsRead, GRPCStep, Goto
  <2>2. QED
    BY <2>1, ChannelInvPassed
<1>5. CASE SEEDLinkNext
  <2>1. /\ UNCHANGED <<ini, grpc>> /\ pc \in {"seedlink", "stateFile", "selectors"}
        /\ pc' \in {"host", "stateFile", "selectors", "threw"}
        /\ pc' \in {"stateFile", "selectors"} => pass' = pass
    BY <1>5 DEF SEEDLinkNext, SEEDLinkHost, StateFile, AddStreamSelector,
                NextSelector, SEEDLinkOptionsRead, Goto
  <2>2. pass = 1
    BY <2>1 DEF ChannelInv
  <2>3. QED
    BY <2>1, <2>2, ChannelInvPassed
<1>6. CASE FileChanges \/ UNCHANGED vars
  <2>1. UNCHANGED <<ini, pc, pass, grpc>>
    BY <1>6 DEF FileChanges, vars
  <2>2. QED
    BY <2>1 DEF ChannelInv, ConfiguredAddress
<1>7. QED
  BY <1>1, <1>2, <1>3, <1>4, <1>5, <1>6, ChannelInvAddress, ChannelInvCertificate,
     ChannelInvToken, ChannelInvClient
     DEF Next, GRPCNext

\* A start that has read its initialization file has a channel to the server of
\* that file, with its certificate and its token, whatever happened to the
\* certificate's file while it was read (getGRPCOptions, twice, and createChannel).
THEOREM ServerSettingsAlwaysReachChannel == Spec => []ServerSettingsReachChannel
<1>1. Init => ChannelInv
  BY DEF Init, ChannelInv, AddressRead, CertificateRead, TokenRead, IniFileRead
<1>2. ChannelInv /\ TypeOK => ServerSettingsReachChannel
  BY DEF ChannelInv, AddressRead, CertificateRead, TokenRead,
         ServerSettingsReachChannel, CreateChannel, TypeOK
<1>3. QED
  BY <1>1, <1>2, TypeCorrect, ChannelInvNext, PTL DEF Spec

-----------------------------------------------------------------------------
(* The selectors. *)

\* Only addStreamSelector changes the list, and appends to it.
LEMMA SelectorSteps ==
  ASSUME TypeOK, [Next]_vars
  PROVE  \/ client'.mSelectors = client.mSelectors
         \/ AddStreamSelector
<1>1. client \in [mHost : {"default", "name"}, mStateFile : BOOLEAN,
                  mDeleteStateFileOnStart : BOOLEAN,
                  mDeleteStateFileOnStop : BOOLEAN, mSelectors : Seq(Selectors)]
  BY DEF TypeOK
<1>2. CASE ReadIniFile \/ GRPCNext \/ FileChanges \/ UNCHANGED vars
  <2>1. UNCHANGED client
    BY <1>2 DEF ReadIniFile, GRPCNext, GRPCStep, Throws, GRPCAddress, CheckServerCertificate,
         LoadServerCertificate, ReadAccessToken, CheckClientKey,
         CheckClientCertificate, LoadClientKey, LoadClientCertificate,
         GRPCOptionsRead, FileChanges, vars
  <2>2. QED
    BY <2>1
<1>3. CASE SEEDLinkHost
  BY <1>1, <1>3 DEF SEEDLinkHost
<1>4. CASE StateFile
  BY <1>1, <1>4 DEF StateFile, DeleteFlags
<1>5. CASE NextSelector \/ SEEDLinkOptionsRead
  BY <1>5 DEF NextSelector, SEEDLinkOptionsRead
<1>6. QED
  BY <1>2, <1>3, <1>4, <1>5 DEF Next, SEEDLinkNext

\* No two selectors of the client ask for the same thing (addStreamSelector).
THEOREM AlwaysDistinct == Spec => []SelectorsDistinct
<1>1. Init => SelectorsDistinct
  BY DEF Init, NewClientOptions, SelectorsDistinct
<1>2. TypeOK /\ SelectorsDistinct /\ [Next]_vars => SelectorsDistinct'
  <2> SUFFICES ASSUME TypeOK, SelectorsDistinct, [Next]_vars
               PROVE  SelectorsDistinct'
    OBVIOUS
  <2> DEFINE q == client.mSelectors
  <2>1. CASE client'.mSelectors = q
    BY <2>1 DEF SelectorsDistinct
  <2>2. CASE AddStreamSelector /\ client'.mSelectors # q
    <3> DEFINE s == FromString(ini.selectors[iSelector][iPiece])
    <3>1. q \in Seq(Selectors) /\ Len(q) \in Nat
      BY DEF TypeOK
    <3>2. ~IsDuplicate(s, q) /\ client' = [client EXCEPT !.mSelectors = Append(@, s)]
      BY <2>2 DEF AddStreamSelector
    <3> HIDE DEF s
    <3>3. client'.mSelectors = Append(q, s)
      BY <3>2 DEF TypeOK
    <3> DEFINE r == client'.mSelectors
    <3>4. /\ Len(r) = Len(q) + 1 /\ r[Len(q) + 1] = s
          /\ \A i \in 1..Len(q) : r[i] = q[i]
      BY <3>1, <3>3
    <3>5. \A i \in 1..Len(q) : Request(q[i]) # Request(s)
      BY <3>2 DEF IsDuplicate
    <3>6. \A i, j \in 1..Len(q) : i # j => Request(q[i]) # Request(q[j])
      BY DEF SelectorsDistinct
    <3> HIDE DEF r, q
    <3>7. ASSUME NEW i \in 1..Len(r), NEW j \in 1..Len(r), i # j
          PROVE  Request(r[i]) # Request(r[j])
      <4>1. CASE i \in 1..Len(q) /\ j \in 1..Len(q)
        BY <3>4, <3>6, <3>7, <4>1
      <4>2. CASE i = Len(q) + 1 /\ j \in 1..Len(q)
        BY <3>4, <3>5, <4>2
      <4>3. CASE j = Len(q) + 1 /\ i \in 1..Len(q)
        BY <3>4, <3>5, <4>3
      <4>4. QED
        BY <3>1, <3>4, <3>7, <4>1, <4>2, <4>3
    <3>8. QED
      BY <3>7 DEF SelectorsDistinct, r
  <2>3. QED
    BY <2>1, <2>2, SelectorSteps
<1>3. QED
  BY <1>1, <1>2, TypeCorrect, PTL DEF Spec

LEMMA LinesAreLines ==
  ASSUME TypeOK
  PROVE  /\ ConfiguredLines \subseteq Lines
         /\ \A i \in 1..Len(ini.selectors) : \A j \in 1..Len(ini.selectors[i]) :
              ini.selectors[i][j] \in ConfiguredLines
<1>1. \A i \in 1..Len(ini.selectors) : ini.selectors[i] \in Seq(Lines)
  BY IniType
<1>2. QED
  BY <1>1 DEF ConfiguredLines, Elements

\* The step that reads a line.
LEMMA SelectorInvAdd ==
  ASSUME TypeOK, SelectorInv, AddStreamSelector
  PROVE  SelectorInv'
<1> DEFINE line == ini.selectors[iSelector][iPiece]
           s == FromString(line)
           q == client.mSelectors
<1>1. /\ pc = "selectors" /\ pc' \in {"selectors", "threw"} /\ pass = 1
      /\ UNCHANGED <<ini, pass, iSelector>>
  BY DEF AddStreamSelector, Goto, SelectorInv
<1>2. CASE pc' = "threw"
  BY <1>1, <1>2 DEF SelectorInv
<1>3. CASE pc' = "selectors"
  <2>1. /\ ~FromStringThrows(line) /\ iPiece' = iPiece + 1
        /\ client' = [client EXCEPT !.mSelectors = Append(@, s)]
    BY <1>3 DEF AddStreamSelector, Goto
  <2>2. client'.mSelectors = Append(q, s) /\ q \in Seq(Selectors)
    BY <2>1 DEF TypeOK
  <2>3. Elements(client'.mSelectors) = Elements(q) \cup {s}
    <3> HIDE DEF s, q
    <3>1. QED
      BY <2>2 DEF Elements
  <2>4. iSelector \in 1..Len(ini.selectors)
        /\ iPiece \in 1..Len(ini.selectors[iSelector])
        /\ ini.selectors[iSelector] \in Seq(Lines)
    <3>1. /\ iSelector \in 1..(Len(ini.selectors) + 1) /\ iPiece \in Nat \ {0}
          /\ iSelector <= Len(ini.selectors)
          /\ iPiece <= Len(ini.selectors[iSelector])
      BY DEF AddStreamSelector, AtPiece, TypeOK
    <3>2. Len(ini.selectors) \in Nat
      BY IniType
    <3>3. iSelector \in 1..Len(ini.selectors)
      BY <3>1, <3>2
    <3>4. ini.selectors[iSelector] \in Seq(Lines)
      BY <3>3, IniType
    <3>5. Len(ini.selectors[iSelector]) \in Nat
      BY <3>4
    <3>6. QED
      BY <3>1, <3>3, <3>4, <3>5
  <2>5. ReadLines' = ReadLines \cup {line}
    <3>1. ConfiguredLines' = ConfiguredLines
      BY <1>1 DEF ConfiguredLines
    <3>2. line \in ConfiguredLines
      BY <2>4, LinesAreLines
    <3>3. line \in ReadLines'
      BY <1>1, <2>1, <2>4, <3>1, <3>2 DEF ReadLines
    <3>4. ReadLines \subseteq ReadLines'
      BY <1>1, <2>1, <2>4, <3>1 DEF ReadLines
    <3>5. ASSUME NEW l \in ReadLines', l # line PROVE l \in ReadLines
      <4>0. PICK i \in 1..Len(ini.selectors) :
              \E j \in 1..Len(ini.selectors[i]) :
                (i < iSelector \/ (i = iSelector /\ j < iPiece + 1))
                /\ ini.selectors[i][j] = l
        BY <1>1, <2>1 DEF ReadLines
      <4>1. PICK j \in 1..Len(ini.selectors[i]) :
              (i < iSelector \/ (i = iSelector /\ j < iPiece + 1))
              /\ ini.selectors[i][j] = l
        BY <4>0
      <4>2. Len(ini.selectors[i]) \in Nat
        BY IniType
      <4>3. ~(i = iSelector /\ j = iPiece)
        BY <3>5, <4>1
      <4>4. i < iSelector \/ (i = iSelector /\ j < iPiece)
        BY <2>4, <4>1, <4>2, <4>3
      <4>5. QED
        BY <3>1, <3>5, <4>1, <4>4 DEF ReadLines
    <3>6. QED
      BY <3>3, <3>4, <3>5
  <2>6. AskedFor(ReadLines)
    BY <1>1 DEF SelectorInv
  <2>7. (AskedFor(ReadLines))'
    <3> HIDE DEF line
    <3>1. QED
      BY <2>1, <2>3, <2>5, <2>6 DEF AskedFor
  <2>8. QED
    BY <1>1, <1>3, <2>7 DEF SelectorInv
<1>4. QED
  BY <1>1, <1>2, <1>3

LEMMA SelectorInvNext ==
  ASSUME TypeOK, SelectorInv, [Next]_vars
  PROVE  SelectorInv'
<1>1. CASE GRPCNext
  <2>1. UNCHANGED <<ini, pass, client, iSelector, iPiece>>
    BY <1>1 DEF GRPCNext, GRPCStep, Throws, GRPCAddress, CheckServerCertificate,
         LoadServerCertificate, ReadAccessToken, CheckClientKey,
         CheckClientCertificate, LoadClientKey, LoadClientCertificate,
         GRPCOptionsRead, Goto, loopVars
  <2>2. /\ pc \notin {"selectors", "threw", "seedlink", "stateFile"}
        /\ pc' \notin {"ini", "selectors", "stateFile"}
        /\ pc' = "seedlink" => pass = 1
    BY <1>1 DEF GRPCNext, GRPCStep, Throws, GRPCAddress, CheckServerCertificate,
         LoadServerCertificate, ReadAccessToken, CheckClientKey,
         CheckClientCertificate, LoadClientKey, LoadClientCertificate,
         GRPCOptionsRead, Goto
  <2>3. pass \in {1, 2}
    BY DEF TypeOK
  <2>4. AskedFor(ConfiguredLines) <=> (AskedFor(ConfiguredLines))'
    BY <2>1 DEF AskedFor, ConfiguredLines
  <2>5. QED
    BY <2>1, <2>2, <2>3, <2>4 DEF SelectorInv
<1>2. CASE SEEDLinkHost
  <2>1. /\ pc = "seedlink" /\ pass = 1
        /\ UNCHANGED <<ini, iSelector, iPiece>>
        /\ client'.mSelectors = client.mSelectors
    BY <1>2 DEF SEEDLinkHost, Goto, loopVars, SelectorInv, TypeOK
  <2>2. \/ pc' = "host" /\ pass' = 2 /\ ini.host = None
        \/ pc' = "threw" /\ pass' = 1
        \/ pc' = "stateFile" /\ pass' = 1
    BY <1>2, <2>1, InisAssumption DEF SEEDLinkHost, Goto
  <2>3. QED
    BY <2>1, <2>2 DEF SelectorInv
<1>3. CASE StateFile
  <2>1. /\ pc = "stateFile" /\ pc' \in {"selectors", "threw"} /\ pass = 1
        /\ UNCHANGED <<ini, iSelector, iPiece, pass>>
    BY <1>3 DEF StateFile, Goto, loopVars, SelectorInv
  <2>2. iSelector = 1 /\ iPiece = 1 /\ client'.mSelectors = <<>>
    <3>1. client.mSelectors = <<>> /\ iSelector = 1 /\ iPiece = 1
      BY <2>1 DEF SelectorInv
    <3>2. client'.mSelectors = client.mSelectors
      BY <1>3 DEF StateFile, DeleteFlags, TypeOK
    <3>3. QED
      BY <3>1, <3>2
  <2>3. ReadLines' = {}
    BY <2>1, <2>2, IniType DEF ReadLines
  <2>4. (AskedFor(ReadLines))'
    BY <2>2, <2>3 DEF AskedFor, Elements
  <2>5. QED
    BY <2>1, <2>2, <2>4 DEF SelectorInv
<1>4. CASE NextSelector
  <2>1. /\ pc = "selectors" /\ pc' = "selectors" /\ pass = 1
        /\ UNCHANGED <<ini, pass, client>>
        /\ iSelector <= Len(ini.selectors) /\ iSelector' = iSelector + 1 /\ iPiece' = 1
        /\ ~(iPiece <= Len(ini.selectors[iSelector]))
    BY <1>4 DEF NextSelector, Goto, AtPiece, SelectorInv
  <2>2. ReadLines' = ReadLines
    <3>1. ConfiguredLines' = ConfiguredLines
      BY <2>1 DEF ConfiguredLines
    <3>2. ASSUME NEW i \in 1..Len(ini.selectors),
                 NEW j \in 1..Len(ini.selectors[i])
          PROVE  (i < iSelector \/ (i = iSelector /\ j < iPiece))
                   <=> (i < iSelector + 1 \/ (i = iSelector + 1 /\ j < 1))
      <4>1. Len(ini.selectors) \in Nat /\ iSelector \in Nat /\ i \in Nat
        BY IniType DEF TypeOK
      <4>2. Len(ini.selectors[i]) \in Nat /\ j \in Nat \ {0}
        BY IniType
      <4>3. i = iSelector => iPiece > Len(ini.selectors[i]) /\ iPiece \in Nat
        BY <2>1 DEF TypeOK
      <4>4. j <= Len(ini.selectors[i])
        BY <4>2
      <4>5. QED
        BY <4>1, <4>2, <4>3, <4>4
    <3>3. QED
      BY <2>1, <3>1, <3>2 DEF ReadLines
  <2>3. QED
    BY <2>1, <2>2 DEF SelectorInv, AskedFor
<1>5. CASE SEEDLinkOptionsRead
  <2>1. /\ pc = "selectors" /\ pc' = "host" /\ pass' = 2
        /\ UNCHANGED <<ini, client, iSelector, iPiece>>
        /\ iSelector > Len(ini.selectors)
    BY <1>5 DEF SEEDLinkOptionsRead, Goto, loopVars
  <2>2. ReadLines = ConfiguredLines
    <3>1. ASSUME NEW i \in 1..Len(ini.selectors) PROVE i < iSelector
      BY <2>1, IniType DEF TypeOK
    <3>2. QED
      BY <3>1 DEF ReadLines, ConfiguredLines, Elements
  <2>3. AskedFor(ConfiguredLines) /\ ConfiguredLines' = ConfiguredLines
    BY <2>1, <2>2 DEF SelectorInv, ConfiguredLines
  <2>4. (AskedFor(ConfiguredLines))'
    BY <2>1, <2>3 DEF AskedFor
  <2>5. QED
    BY <2>1, <2>4 DEF SelectorInv
<1>6. CASE FileChanges \/ UNCHANGED vars
  <2>1. UNCHANGED <<ini, pc, pass, client, iSelector, iPiece>>
    BY <1>6 DEF FileChanges, vars, loopVars
  <2>2. ReadLines' = ReadLines /\ ConfiguredLines' = ConfiguredLines
    BY <2>1 DEF ReadLines, ConfiguredLines
  <2>3. QED
    BY <2>1, <2>2 DEF SelectorInv, AskedFor
<1>7. CASE ReadIniFile
  <2>1. /\ pc = "ini" /\ pc' \in {"host", "done", "threw"}
        /\ UNCHANGED <<pass, client, iSelector, iPiece>>
    BY <1>7 DEF ReadIniFile, GRPCStep, Goto, loopVars
  <2>2. QED
    BY <2>1 DEF SelectorInv
<1>8. QED
  BY <1>1, <1>2, <1>3, <1>4, <1>5, <1>6, <1>7, SelectorInvAdd
     DEF Next, SEEDLinkNext

LEMMA SelectorInvAlways == Spec => []SelectorInv
<1>1. Init => SelectorInv
  BY DEF Init, NewClientOptions, SelectorInv
<1>2. QED
  BY <1>1, TypeCorrect, SelectorInvNext, PTL DEF Spec

\* Every selector of the file is asked for and no other, for every file and
\* every numbering of its lines (getSEEDLinkOptions).
THEOREM EveryLineAsked == Spec => []EverySelectorAsked
<1>1. SelectorInv /\ SelectorsDistinct => EverySelectorAsked
  BY DEF SelectorInv, EverySelectorAsked, IniFileRead, AskedFor
<1>2. QED
  BY <1>1, SelectorInvAlways, AlwaysDistinct, PTL

\* What is asked of the server includes what the lines name (fromString and
\* getSelector).
THEOREM AlwaysWideEnough == Spec => []NeverTooNarrow
<1>1. TypeOK /\ SelectorInv => NeverTooNarrow
  <2> SUFFICES ASSUME TypeOK, SelectorInv, IniFileRead, ini.host # None,
                      NEW line \in ConfiguredLines, line.tabbed = {}
               PROVE  Named(line) \subseteq Selected(FromString(line))
    BY DEF NeverTooNarrow
  <2>1. line \in Lines
    BY LinesAreLines
  <2>2. ~FromStringThrows(line)
    BY DEF SelectorInv, IniFileRead, AskedFor
  <2>3. QED
    BY <2>1, <2>2, LineKept
<1>2. QED
  BY <1>1, TypeCorrect, SelectorInvAlways, PTL
=============================================================================
