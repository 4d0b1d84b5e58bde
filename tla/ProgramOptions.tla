----------------------------- MODULE ProgramOptions -----------------------------
(***************************************************************************)
(* What parseIniFile makes of the initialization file, if it is still      *)
(* there: the options of the connection to the import proxy                *)
(* (getGRPCOptions with class GRPCOptions, read twice, the second reading  *)
(* the one that counts) and, in between, those of the SEEDLink client      *)
(* (getSEEDLinkOptions with class SEEDLinkClientOptions).  The files the   *)
(* initialization file names belong to others and may change at any time,  *)
(* so that the test whether a file exists and the reading of it are two    *)
(* steps.                                                                  *)
(*                                                                         *)
(* A setting is None when it is absent, or when its text does not convert  *)
(* and get() falls back on the default.  Any exception ends the program.   *)
(*                                                                         *)
(* pc: ini (is the file there?), host, certificate, loadCertificate,       *)
(* token, clientKey, clientCertificate, loadKey, loadClient, over          *)
(* (getGRPCOptions), seedlink, stateFile, selectors (getSEEDLinkOptions),  *)
(* done, threw.                                                            *)
(***************************************************************************)
EXTENDS StreamSelector

CONSTANTS
  Inis,      \* initialization files
  None       \* a setting that is not there

Hosts == {None, "spaces", "name"}
FileNames == {"certificate", "clientKey", "clientCertificate"}
FileStates == {"absent", "unreadable", "empty", "text"}

IniFiles == [grpcHost : Hosts, grpcPort : Nat \cup {None},
             named : SUBSET FileNames,         \* the files it gives paths of
             token : {None, "empty", "token"},
             host : Hosts, stateFile : BOOLEAN,
             deleteOnStart : BOOLEAN, deleteOnStop : BOOLEAN,
             selectors : Seq(Seq(Lines))]      \* data_selector_i, split at , |

ASSUME InisAssumption ==
  /\ Inis \subseteq IniFiles
  /\ None \notin {"spaces", "name", "empty", "token"}

VARIABLES
  ini,         \* the initialization file
  files,       \* the files it names
  pc,
  pass,        \* the first or the second getGRPCOptions
  grpc,        \* GRPCOptionsImpl; certificates, keys and token: set or not
  client,      \* SEEDLinkClientOptionsImpl
  iSelector,   \* the loops over data_selector_i
  iPiece       \* and over the selectors in one of them

loopVars == <<iSelector, iPiece>>
vars == <<ini, files, pc, pass, grpc, client, loopVars>>

NewGRPCOptions == [mHost |-> "default", mPort |-> 50000,
                   mServerCertificate |-> FALSE, mAccessToken |-> FALSE,
                   mClientKey |-> FALSE, mClientCertificate |-> FALSE]

NewClientOptions == [mHost |-> "default", mStateFile |-> FALSE,
                     mDeleteStateFileOnStart |-> FALSE,
                     mDeleteStateFileOnStop |-> FALSE, mSelectors |-> <<>>]

Init ==
  /\ ini \in Inis
  /\ files \in [FileNames -> FileStates]
  /\ \A f \in FileNames \ ini.named : files[f] = "absent"
  /\ pc = "ini"
  /\ pass = 1
  /\ grpc = NewGRPCOptions
  /\ client = NewClientOptions
  /\ iSelector = 1
  /\ iPiece = 1

-----------------------------------------------------------------------------
(* parseIniFile *)

Goto(from, to) ==
  /\ pc = from
  /\ pc' = to
  /\ UNCHANGED <<ini, files>>

GRPCStep(from, to) == Goto(from, to) /\ UNCHANGED <<pass, client, loopVars>>

Throws(from) == GRPCStep(from, "threw") /\ UNCHANGED grpc

\* The file was there when parseCommandLineOptions looked.  If it has gone since,
\* the program starts with its defaults; reading it and its General section may
\* throw.
ReadIniFile ==
  \E to \in {"host", "done", "threw"} : GRPCStep("ini", to) /\ UNCHANGED grpc

-----------------------------------------------------------------------------
(* getGRPCOptions *)

\* setHost refuses what is empty once the spaces are gone, setPort a zero.
GRPCAddress ==
  IF ini.grpcHost = "spaces" \/ ini.grpcPort = 0
  THEN Throws("host")
  ELSE /\ GRPCStep("host", "certificate")
       /\ grpc' = [NewGRPCOptions EXCEPT
                     !.mHost = IF ini.grpcHost = None THEN @ ELSE "name",
                     !.mPort = IF ini.grpcPort = None THEN @ ELSE ini.grpcPort]

CheckServerCertificate ==
  IF "certificate" \in ini.named
  THEN IF files["certificate"] = "absent"
       THEN Throws("certificate")
       ELSE GRPCStep("certificate", "loadCertificate") /\ UNCHANGED grpc
  ELSE GRPCStep("certificate", "token") /\ UNCHANGED grpc

\* A slip: the setter takes an empty certificate for none.
LoadOrGoWithout ==
  /\ GRPCStep("loadCertificate", "token")
  /\ grpc' = [grpc EXCEPT !.mServerCertificate = files["certificate"] = "text"]

\* loadStringFromFile returns an empty string for a file that has gone since,
\* or throws; the setters throw on an empty string.
Loads(file) == files[file] = "text"

LoadServerCertificate ==
  IF Loads("certificate")
  THEN /\ GRPCStep("loadCertificate", "token")
       /\ grpc' = [grpc EXCEPT !.mServerCertificate = TRUE]
  ELSE Throws("loadCertificate")

ReadAccessToken ==
  CASE ini.token = None -> GRPCStep("token", "clientKey") /\ UNCHANGED grpc
    [] ini.token = "token" /\ grpc.mServerCertificate ->
         /\ GRPCStep("token", "clientKey")
         /\ grpc' = [grpc EXCEPT !.mAccessToken = TRUE]
    [] OTHER -> Throws("token")

\* Only the two together; one without the other is passed over.
CheckClientKey ==
  IF {"clientKey", "clientCertificate"} \subseteq ini.named
  THEN IF files["clientKey"] = "absent"
       THEN Throws("clientKey")
       ELSE GRPCStep("clientKey", "clientCertificate") /\ UNCHANGED grpc
  ELSE GRPCStep("clientKey", "over") /\ UNCHANGED grpc

CheckClientCertificate ==
  IF files["clientCertificate"] = "absent"
  THEN Throws("clientCertificate")
  ELSE GRPCStep("clientCertificate", "loadKey") /\ UNCHANGED grpc

LoadClientKey ==
  IF Loads("clientKey")
  THEN /\ GRPCStep("loadKey", "loadClient")
       /\ grpc' = [grpc EXCEPT !.mClientKey = TRUE]
  ELSE Throws("loadKey")

LoadClientCertificate ==
  IF Loads("clientCertificate")
  THEN /\ GRPCStep("loadClient", "over")
       /\ grpc' = [grpc EXCEPT !.mClientCertificate = TRUE]
  ELSE Throws("loadClient")

GRPCOptionsRead ==
  GRPCStep("over", IF pass = 1 THEN "seedlink" ELSE "done") /\ UNCHANGED grpc

GRPCNext ==
  \/ GRPCAddress \/ CheckServerCertificate \/ LoadServerCertificate
  \/ ReadAccessToken \/ CheckClientKey \/ CheckClientCertificate
  \/ LoadClientKey \/ LoadClientCertificate \/ GRPCOptionsRead

\* createChannel of the packet writer.  Of the SslCredentialsOptions it fills in
\* pem_root_certs only, and a token is only looked at beside a certificate.
CreateChannel(options) ==
  [address |-> <<options.mHost, options.mPort>>,     \* makeAddress
   pem_root_certs |-> options.mServerCertificate,    \* without: in the clear
   pem_private_key |-> FALSE,
   pem_cert_chain |-> FALSE,
   token |-> options.mServerCertificate /\ options.mAccessToken]

-----------------------------------------------------------------------------
(* getSEEDLinkOptions *)

\* Without SEEDLink.host the section is not read at all, its selectors neither.
SEEDLinkHost ==
  /\ UNCHANGED <<grpc, loopVars>>
  /\ CASE ini.host = None -> Goto("seedlink", "host") /\ pass' = 2 /\ UNCHANGED client
       [] ini.host = "spaces" -> Goto("seedlink", "threw") /\ UNCHANGED <<pass, client>>
       [] OTHER -> /\ Goto("seedlink", "stateFile")
                   /\ client' = [client EXCEPT !.mHost = "name"]
                   /\ UNCHANGED pass

\* Only read beside a state file.
DeleteFlags(options) ==
  [options EXCEPT !.mDeleteStateFileOnStart = ini.deleteOnStart,
                  !.mDeleteStateFileOnStop = ini.deleteOnStop]

\* Making the file's directory may fail, also because another process makes it
\* just then.  stateFileUpdateInterval is read and dropped.
StateFile ==
  /\ UNCHANGED <<grpc, pass, loopVars>>
  /\ \/ /\ Goto("stateFile", "selectors")
        /\ client' = IF ini.stateFile
                     THEN DeleteFlags([client EXCEPT !.mStateFile = TRUE])
                     ELSE client
     \/ ini.stateFile /\ Goto("stateFile", "threw") /\ UNCHANGED client

AtPiece == iSelector <= Len(ini.selectors) /\ iPiece <= Len(ini.selectors[iSelector])

Request(s) == <<s.mNetwork, s.mStation, GetSelector(s)>>

\* A slip: whole objects are compared, not what is asked of the server.
SameObject(s, selectors) == \E i \in 1..Len(selectors) : selectors[i] = s

\* addStreamSelector refuses what the server could not tell from another.
IsDuplicate(s, selectors) ==
  \E i \in 1..Len(selectors) : Request(selectors[i]) = Request(s)

AddStreamSelector ==
  /\ AtPiece
  /\ UNCHANGED <<grpc, pass, iSelector>>
  /\ LET line == ini.selectors[iSelector][iPiece]
         s == FromString(line)
     IN IF FromStringThrows(line) \/ IsDuplicate(s, client.mSelectors)
        THEN Goto("selectors", "threw") /\ UNCHANGED <<client, iPiece>>
        ELSE /\ Goto("selectors", "selectors")
             /\ client' = [client EXCEPT !.mSelectors = Append(@, s)]
             /\ iPiece' = iPiece + 1

\* Two slips: a number that is not there ends the loop; one is skipped.
StopsAtGap ==
  /\ iSelector <= Len(ini.selectors) /\ ~AtPiece
  /\ Goto("selectors", "selectors")
  /\ iSelector' = IF ini.selectors[iSelector] = <<>> THEN Len(ini.selectors) + 1
                                                     ELSE iSelector + 1
  /\ iPiece' = 1
  /\ UNCHANGED <<grpc, pass, client>>

SkipsOne ==
  /\ iSelector <= Len(ini.selectors) /\ ~AtPiece
  /\ Goto("selectors", "selectors")
  /\ iSelector' = iSelector + 2
  /\ iPiece' = 1
  /\ UNCHANGED <<grpc, pass, client>>

\* The numbers may have gaps: all 32768, the length of ini.selectors here, are
\* looked for.
NextSelector ==
  /\ iSelector <= Len(ini.selectors) /\ ~AtPiece
  /\ Goto("selectors", "selectors")
  /\ iSelector' = iSelector + 1
  /\ iPiece' = 1
  /\ UNCHANGED <<grpc, pass, client>>

SEEDLinkOptionsRead ==
  /\ iSelector > Len(ini.selectors)
  /\ Goto("selectors", "host")
  /\ pass' = 2
  /\ UNCHANGED <<grpc, client, loopVars>>

SEEDLinkNext ==
  \/ SEEDLinkHost \/ StateFile \/ AddStreamSelector \/ NextSelector
  \/ SEEDLinkOptionsRead

-----------------------------------------------------------------------------
\* Somebody replaces, empties, removes or locks a file the settings name.
FileChanges ==
  \E f \in ini.named, state \in FileStates :
    /\ files' = [files EXCEPT ![f] = state]
    /\ UNCHANGED <<ini, pc, pass, grpc, client, loopVars>>

Next == ReadIniFile \/ GRPCNext \/ SEEDLinkNext \/ FileChanges

Spec == Init /\ [][Next]_vars

-----------------------------------------------------------------------------
Elements(q) == {q[i] : i \in 1..Len(q)}
ConfiguredLines ==
  UNION {Elements(ini.selectors[i]) : i \in 1..Len(ini.selectors)}

\* Types.
TypeOK ==
  /\ ini \in IniFiles
  /\ files \in [FileNames -> FileStates]
  /\ pc \in {"ini", "host", "certificate", "loadCertificate", "token", "clientKey",
             "clientCertificate", "loadKey", "loadClient", "over", "seedlink",
             "stateFile", "selectors", "done", "threw"}
  /\ pass \in {1, 2}
  /\ grpc \in [mHost : {"default", "name"}, mPort : Nat,
               mServerCertificate : BOOLEAN, mAccessToken : BOOLEAN,
               mClientKey : BOOLEAN, mClientCertificate : BOOLEAN]
  /\ client \in [mHost : {"default", "name"}, mStateFile : BOOLEAN,
                 mDeleteStateFileOnStart : BOOLEAN,
                 mDeleteStateFileOnStop : BOOLEAN, mSelectors : Seq(Selectors)]
  /\ iSelector \in 1..(Len(ini.selectors) + 1)
  /\ iPiece \in Nat \ {0}

\* The start succeeded, and not because the initialization file was gone.
IniFileRead == pc = "done" /\ pass = 2

ConfiguredAddress ==
  <<IF ini.grpcHost = None THEN "default" ELSE "name",
    IF ini.grpcPort = None THEN 50000 ELSE ini.grpcPort>>

\* Whatever happens to the files meanwhile, in either reading of the section,
\* what the file says of the server reaches the channel: its address, its
\* certificate, which makes the channel a secure one, and the token, which is
\* sent, over a secure channel, never dropped and never in the clear.  Nothing is
\* said of the client's own key and certificate: see SomeCredentialNoteHolds.
ServerSettingsReachChannel ==
  LET channel == CreateChannel(grpc)
  IN IniFileRead => /\ channel.address = ConfiguredAddress
                    /\ channel.pem_root_certs <=> "certificate" \in ini.named
                    /\ channel.token <=> ini.token # None

\* The notes of grpcOptions.hpp on credentials.  Of the server certificate (line
\* 42): "The server key must also be set for gRPC to use this"; the class has no
\* server key.  Of the client's pair (lines 45 and 53): it is "for a full key
\* exchange", and with key and certificate set gRPC uses them.  That at least one
\* of the notes holds of the channel of a start that succeeds: a violation
\* refutes both.
SomeCredentialNoteHolds ==
  LET channel == CreateChannel(grpc)
      serverNote == channel.pem_root_certs => "mServerKey" \in DOMAIN grpc
      clientNote == grpc.mClientKey /\ grpc.mClientCertificate
                      => channel.pem_private_key /\ channel.pem_cert_chain
  IN IniFileRead => serverNote \/ clientNote

\* No two selectors of the client ask the server for the same thing, however
\* differently their lines are spelled.
SelectorsDistinct ==
  \A i, j \in 1..Len(client.mSelectors) :
    i # j => Request(client.mSelectors[i]) # Request(client.mSelectors[j])

\* Every selector of the file is asked for, once, and no other, whatever gaps
\* the numbering has: a line is never skipped, it is read or it ends the start.
EverySelectorAsked ==
  IniFileRead /\ ini.host # None =>
    /\ \A line \in ConfiguredLines : ~FromStringThrows(line)
    /\ Elements(client.mSelectors) = {FromString(line) : line \in ConfiguredLines}
    /\ SelectorsDistinct

\* A line is never read as less than it says: what is left out, and a type
\* that is not known, widen the request.  Lines with repeated tabs excepted,
\* whose fields shift.
NeverTooNarrow ==
  IniFileRead /\ ini.host # None =>
    \A line \in ConfiguredLines :
      line.tabbed = {} => Named(line) \subseteq Selected(FromString(line))

-----------------------------------------------------------------------------
\* What makes ServerSettingsReachChannel inductive: at each point of
\* getGRPCOptions, what is known of the address, the certificate and the token.
\* They are set one after the other and not touched afterwards.
TokenRead ==
  \/ pc \in {"clientKey", "clientCertificate", "loadKey", "loadClient", "over"}
  \/ IniFileRead
CertificateRead == pc = "token" \/ TokenRead
AddressRead == pc \in {"certificate", "loadCertificate"} \/ CertificateRead

ChannelInv ==
  LET named == "certificate" \in ini.named
  IN /\ pc \in {"ini", "seedlink", "stateFile", "selectors"} => pass = 1
     /\ pc = "loadCertificate" => named
     /\ pc \in {"certificate", "loadCertificate"} => ~grpc.mServerCertificate
     /\ pc \in {"certificate", "loadCertificate", "token"} => ~grpc.mAccessToken
     /\ AddressRead => <<grpc.mHost, grpc.mPort>> = ConfiguredAddress
     /\ CertificateRead => (grpc.mServerCertificate <=> named)
     /\ TokenRead => /\ grpc.mAccessToken <=> ini.token # None
                     /\ grpc.mAccessToken => grpc.mServerCertificate

\* The same for EverySelectorAsked: what was read so far is asked for.
ReadLines ==
  {line \in ConfiguredLines :
     \E i \in 1..Len(ini.selectors) : \E j \in 1..Len(ini.selectors[i]) :
       /\ i < iSelector \/ (i = iSelector /\ j < iPiece)
       /\ ini.selectors[i][j] = line}

AskedFor(lines) ==
  /\ \A line \in lines : ~FromStringThrows(line)
  /\ Elements(client.mSelectors) = {FromString(line) : line \in lines}

SelectorInv ==
  /\ pc \in {"ini", "seedlink", "stateFile", "selectors"} => pass = 1
  /\ pass = 1 /\ pc \notin {"selectors", "threw"} =>
       iSelector = 1 /\ iPiece = 1 /\ client.mSelectors = <<>>
  /\ pc = "selectors" => AskedFor(ReadLines)
  /\ pass = 2 /\ ini.host # None /\ pc # "threw" => AskedFor(ConfiguredLines)
=============================================================================
