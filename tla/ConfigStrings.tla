---------------------------- MODULE ConfigStrings ----------------------------
(***************************************************************************)
(* What the game registers by name, and which clients have been told       *)
(* (server/sv_main.c, server/sv_user.c, server/sv_send.c).  A model, an    *)
(* image or a sound is known by the index of its configstring.  The game   *)
(* registers one while it handles a client's command or runs a frame; the  *)
(* end of the frame writes every string not yet marked in syncstrings into *)
(* the message of every client; a client that joins asks for all of them.  *)
(* The mark is one for the whole server, whoever was told.                 *)
(*                                                                         *)
(* One pool of indices stands for those of models, images, sounds and      *)
(* fonts.  A transmitted message counts as read, in order (NetLoop; what a *)
(* network does to the join is in Connect).  A message is measured in      *)
(* strings: the sixteen bytes that a flush keeps free hold the mirrored    *)
(* command at its end.                                                     *)
(***************************************************************************)
EXTENDS Integers, Sequences

CONSTANTS
  Name,        \* names that the game may register
  Theme,       \* what GetThemeValue makes of each: a file, or the name again
  MaxIndex,    \* MAX_MODELS: the pool's indices are those below
  MaxClients,  \* clients of the server
  MaxSize      \* MAX_MSGLEN, in strings

ASSUME SizesAssumption ==
  /\ MaxIndex \in Nat \ {0} /\ MaxClients \in Nat \ {0}
  /\ MaxSize \in Nat /\ MaxSize > MaxIndex
  /\ "" \notin Name
  /\ DOMAIN Theme = Name /\ \A n \in Name : Theme[n] # ""

VARIABLES
  strings,  \* sv.configstrings of the pool
  synced,   \* indices marked in sv.syncstrings
  client,   \* where each client is: the command it is to send next, or in play
  message,  \* netchan.message of each client
  names,    \* cl.configstrings of each client, after the theme
  asked     \* the client that was last sent all strings (history; 0: none)

stringsVars == <<strings, synced, client, message, names, asked>>

Index == 1 .. MaxIndex - 1
Client == 1 .. MaxClients
Stage == {"free", "new", "configstrings", "baselines", "begin", "spawned"}
File == {Theme[n] : n \in Name}
ConfigString == [index : Index, name : File]

NumClients(c) == IF \E k \in Client : c[k] # "free"
                 THEN CHOOSE k \in Client :
                        /\ c[k] # "free"
                        /\ \A l \in Client : c[l] # "free" => l <= k
                 ELSE 0
Used(s) == {i \in Index : s[i] # ""}

-----------------------------------------------------------------------------
(* SV_FindIndex: the index of a name, registered in the first free slot if *)
(* it is new; a full pool gives index 0 and keeps what it has.             *)
First(s, wanted) == {i \in Index : s[i] = wanted
                                   /\ \A j \in 1 .. i - 1 : s[j] \notin {wanted, ""}}

(* Mutant: a name is registered again each time. *)
FindIndexTwice(n) ==
  strings' = [i \in Index |-> IF i \in First(strings, "") THEN n ELSE strings[i]]

FindIndex(n) ==
  strings' = [i \in Index |-> IF First(strings, n) = {} /\ i \in First(strings, "")
                              THEN n ELSE strings[i]]

(* SZ_GetSpace: what does not fit throws away all that was collected. *)
Write(msg, item) == IF Len(msg) + 1 > MaxSize THEN <<item>> ELSE Append(msg, item)

(* CL_ParseConfigString, for each string of a transmitted message. *)
Told(table, msg) ==
  [i \in Index |->
     IF \E p \in DOMAIN msg : msg[p].index = i
     THEN msg[CHOOSE p \in DOMAIN msg :
                /\ msg[p].index = i
                /\ \A q \in DOMAIN msg : msg[q].index = i => q <= p].name
     ELSE table[i]]

(* SV_WriteConfigString for the indices of a list, into one message; a     *)
(* join flushes the message in time (SV_Configstrings_f).  A batch is the  *)
(* message and what the client knows.                                      *)
Batch(msg, table) == [message |-> msg, names |-> table]
Flush(b) == Batch(<<>>, Told(b.names, b.message))

WriteConfigString(s, b, i) ==
  LET roomy == IF Len(b.message) + 1 >= MaxSize THEN Flush(b) ELSE b
  IN Batch(Write(roomy.message, [index |-> i, name |-> Theme[s[i]]]), roomy.names)

(* The loops over all indices, which pass over those not in a set: what    *)
(* there is when the loop has come as far as an index.                     *)
WriteBatches(s, b, set) ==
  LET upto[i \in 0 .. MaxIndex - 1] ==
        IF i = 0 THEN b
        ELSE IF i \in set THEN WriteConfigString(s, upto[i - 1], i)
        ELSE upto[i - 1]
  IN upto[MaxIndex - 1]

WriteStrings(s, msg, set) ==
  LET upto[i \in 0 .. MaxIndex - 1] ==
        IF i = 0 THEN msg
        ELSE IF i \in set THEN Write(upto[i - 1], [index |-> i, name |-> Theme[s[i]]])
        ELSE upto[i - 1]
  IN upto[MaxIndex - 1]

-----------------------------------------------------------------------------
(* LoadMap has registered a name or two before a client is let in. *)
StringsInit ==
  /\ strings \in [Index -> Name \cup {""}]
  /\ \A i, j \in Index : /\ i < j /\ strings[j] # "" => strings[i] # ""
                         /\ i # j /\ strings[i] = strings[j] => strings[i] = ""
  /\ synced = {}
  /\ client = [k \in Client |-> "free"]
  /\ message = [k \in Client |-> <<>>]
  /\ names = [k \in Client |-> [i \in Index |-> ""]]
  /\ asked = 0

(* SV_DirectConnect, SV_ClientConnect: the next record of the table. *)
Connect(k) ==
  /\ client[k] = "free" /\ k = NumClients(client) + 1
  /\ client' = [client EXCEPT ![k] = "new"]
  /\ message' = [message EXCEPT ![k] = <<>>]
  /\ UNCHANGED <<strings, synced, names, asked>>

(* Netchan_Transmit to the clients of a set. *)
Transmit(ks, msg) ==
  /\ message' = [k \in Client |-> IF k \in ks THEN <<>> ELSE msg[k]]
  /\ names' = [k \in Client |-> IF k \in ks THEN Told(names[k], msg[k]) ELSE names[k]]

(* SV_New_f and SV_Baselines_f answer with what was collected and the next *)
(* command to send.                                                        *)
Reply(k, stage, next) ==
  /\ client[k] = stage
  /\ client' = [client EXCEPT ![k] = next]
  /\ Transmit({k}, message)
  /\ UNCHANGED <<strings, synced, asked>>

New(k) == Reply(k, "new", "configstrings")
Baselines(k) == Reply(k, "baselines", "begin")

(* SV_Configstrings_f: all strings there are, and all count as sent. *)
Configstrings(k) ==
  /\ client[k] = "configstrings"
  /\ client' = [client EXCEPT ![k] = "baselines"]
  /\ LET all == WriteBatches(strings, Batch(message[k], names[k]), Used(strings))
     IN /\ message' = [message EXCEPT ![k] = <<>>]
        /\ names' = [names EXCEPT ![k] = Flush(all).names]
  /\ synced' = synced \cup Used(strings)
  /\ asked' = k
  /\ UNCHANGED strings

(* PF_Unicast of a layout for the player of a client: the edict of player  *)
(* p is number p, the first client's player is 0, and the message goes to  *)
(* the client before: to nobody for player 0, unless it is alone.          *)
Receiver(c, player) ==
  IF 1 <= player /\ player <= NumClients(c) THEN {player}
  ELSE IF NumClients(c) = 1 THEN {1} ELSE {}

(* Mutant: the game marks what it registers as sent, with its layout. *)
LayoutMarked(k, n) ==
  /\ FindIndex(n)
  /\ Transmit(Receiver(client, k - 1), message)
  /\ synced' = synced \cup Used(strings')

(* The game shows a client's player a layout with an image. *)
Layout(k, n) ==
  /\ FindIndex(n)
  /\ Transmit(Receiver(client, k - 1), message)
  /\ UNCHANGED synced

(* SV_Begin_f and ClientBegin, which shows the console. *)
Begin(k) ==
  /\ client[k] = "begin"
  /\ client' = [client EXCEPT ![k] = "spawned"]
  /\ \E n \in Name : Layout(k, n)
  /\ UNCHANGED asked

(* ge->ClientCommand: a command that shows a layout. *)
ClientCommand(k) ==
  /\ client[k] = "spawned"
  /\ \E n \in Name : Layout(k, n)
  /\ UNCHANGED <<client, asked>>

(* SV_Multicast of the strings not yet marked: into the message of every   *)
(* client of the table, in play or not.                                    *)
Unsynced(s) == Used(s) \ synced

(* Mutant: only clients in play are told. *)
MulticastSpawned(s) ==
  [k \in Client |->
     IF client[k] # "spawned" THEN message[k]
     ELSE WriteStrings(s, message[k], Unsynced(s))]

Multicast(s) ==
  [k \in Client |->
     IF client[k] = "free" THEN message[k]
     ELSE WriteStrings(s, message[k], Unsynced(s))]

(* SV_RunGameFrame, in which the game may register a name, and             *)
(* SV_SendClientMessages: the clients in play are sent their datagram,     *)
(* and with it what their message holds.                                   *)
Frame ==
  /\ UNCHANGED strings \/ \E n \in Name : FindIndex(n)
  /\ synced' = synced \cup Used(strings')
  /\ Transmit({k \in Client : client[k] = "spawned"}, Multicast(strings'))
  /\ UNCHANGED <<client, asked>>

StringsNext ==
  \/ \E k \in Client : Connect(k) \/ New(k) \/ Configstrings(k) \/ Baselines(k)
                         \/ Begin(k) \/ ClientCommand(k)
  \/ Frame

(* SV_Frame is called for ever by the main loop; nothing obliges a player. *)
StringsSpec == StringsInit /\ [][StringsNext]_stringsVars /\ WF_stringsVars(Frame)

-----------------------------------------------------------------------------
(* The pool has no holes and no name twice; messages keep to their size. *)
StringsTypeOK ==
  /\ strings \in [Index -> Name \cup {""}]
  /\ \A i, j \in Index : /\ i < j /\ strings[j] # "" => strings[i] # ""
                         /\ i # j /\ strings[i] = strings[j] => strings[i] = ""
  /\ synced \subseteq Used(strings)
  /\ client \in [Client -> Stage]
  /\ message \in [Client -> Seq(ConfigString)]
  /\ \A k \in Client : Len(message[k]) <= MaxSize
  /\ names \in [Client -> [Index -> File \cup {""}]]
  /\ asked \in 0 .. MaxClients

(* The client that joined last has, or has on its way, every string that   *)
(* counts as sent, under the index the server gave it: neither a full      *)
(* pool, a full message nor a join in the middle of a frame costs it one.  *)
(* (An earlier one may miss those that the later join marked.)             *)
LastToldKnowsAll ==
  asked # 0 => \A i \in synced :
    Told(names[asked], message[asked])[i] = Theme[strings[i]]

(* Once everyone is in play, every string that is registered from then on, *)
(* or is still not marked, reaches all of them: the images of a layout     *)
(* come after it, but they come.                                           *)
InPlay == \A k \in Client : client[k] = "spawned"
EveryoneKnows(i) == \A k \in Client : strings[i] # "" /\ names[k][i] = Theme[strings[i]]

UnsentReachesAll ==
  \A i \in Index :
    [](InPlay /\ i \notin synced => [](strings[i] # "" => <>EveryoneKnows(i)))
==============================================================================
