------------------------------ MODULE Commands ------------------------------
(***************************************************************************)
(* The command line: lantun-cli/src/main.rs and config.rs, with the        *)
(* registries of tunnels in lantun-core (HostState, ClientState).  A       *)
(* process is one call of `lantun`.  All processes use one configuration   *)
(* file, which nothing locks: each reads it once, an editing command       *)
(* changes the copy in memory and writes it back.  std::fs::write          *)
(* truncates the file and then fills it.  `lantun` without a command       *)
(* creates a tunnel for every entry, starts the tunnels one by one, and    *)
(* ends with the first of them that fails.                                 *)
(*                                                                         *)
(* A place is a local address with its protocol.  The tunnels themselves   *)
(* are the subject of Tunnel; here one is its entry in the file and how    *)
(* far it has come.                                                        *)
(***************************************************************************)
EXTENDS Naturals, FiniteSets, SequencesExt

CONSTANTS
  Process,   \* bound: the calls of lantun
  Command,   \* what they may be asked to do
  Name,      \* names of tunnels, numbered in the order they sort
  Place,     \* local addresses with a protocol
  Key,       \* secrets of host tunnels made before
  Earlier,   \* what the file may hold at first
  NoFile, Blank, \* a file that is absent, or empty
  None       \* no command

\* The secret of a client entry is any hex string; 32 bytes need not be a key.
Secret == {"good", "short", "notkey"}
HostEntry ==
  [kind : {"host"}, name : Name, place : Place, secret : Key \cup Process]
ClientEntry ==
  [kind : {"client"}, name : Name, place : Place, secret : Secret]
Entry == HostEntry \cup ClientEntry
Config == [host : Seq(HostEntry), client : Seq(ClientEntry)]

\* A text that does not parse, with the entries that are whole in it.
Garbled == [broken : Config]

Default == [host |-> <<>>, client |-> <<>>]

OwnSecrets(s) == \A i, j \in DOMAIN s : s[i].secret = s[j].secret => i = j

\* A secret drawn now is none of those drawn before, and those are each the
\* secret of one host tunnel.
ASSUME CommandsAssumption ==
  /\ Name \subseteq Nat
  /\ \A p \in Process : p \notin Key
  /\ Command \subseteq
       [do : {"add-host"}, name : Name, place : Place]
         \cup [do : {"add-client"}, name : Name, place : Place,
                secret : Secret \cup {"nothex"}]
         \cup [do : {"remove"}, name : Name]
         \cup [do : {"list", "run"}]
  /\ None \notin Command
  /\ NoFile # Blank
  /\ NoFile \notin Config \cup Garbled /\ Blank \notin Config \cup Garbled
  /\ Earlier \subseteq Config \cup Garbled \cup {NoFile, Blank}
  /\ \A f \in Earlier \cap Config :
       /\ OwnSecrets(f.host)
       /\ \A e \in ToSet(f.host) : e.secret \in Key

Editing == {"add-host", "add-client", "remove"}
Over == {"done", "failed"}

VARIABLES
  file,  \* the configuration file
  cmd,   \* process -> its command, once it is called
  at,    \* process -> where it is, or how it ended
  mem,   \* process -> its copy of the configuration, until it ends
  tun,   \* process -> its tunnels, each with how far it has come
  calm,  \* history: no two editing commands overlapped, no save was cut off
  torn   \* history: two processes were writing the file at one time

vars == <<file, cmd, at, mem, tun, calm, torn>>

TypeOK ==
  /\ file \in Config \cup Garbled \cup {NoFile, Blank}
  /\ cmd \in [Process -> Command \cup {None}]
  /\ at \in [Process -> Over \cup {"uncalled", "load", "create", "fill", "loaded", "save", "run"}]
  /\ mem \in [Process -> Config]
  /\ \A p \in Process :
       /\ DOMAIN tun[p] \subseteq Entry
       /\ \A e \in DOMAIN tun[p] :
            tun[p][e] \in {"created", "started", "listening", "ended"}
  /\ calm \in BOOLEAN /\ torn \in BOOLEAN

NoTunnels == [e \in {} |-> "created"]

Init ==
  /\ file \in Earlier
  /\ cmd = [p \in Process |-> None]
  /\ at = [p \in Process |-> "uncalled"]
  /\ mem = [p \in Process |-> Default]
  /\ tun = [p \in Process |-> NoTunnels]
  /\ calm = (file \in Config \cup {NoFile})
  /\ torn = FALSE

-----------------------------------------------------------------------------
(* The file.                                                               *)

\* Processes that write, and those whose copy may be written back.
Writers == {p \in Process : at[p] \in {"fill", "save"}}
Editors ==
  Writers \cup {p \in Process : at[p] = "create"
                                 \/ (at[p] = "loaded" /\ cmd[p].do \in Editing)}

\* Whoever writes begins at the start of the file.  If another process has
\* written since the file was truncated, the end of its longer text stays
\* behind: some last entries of its lists, after an entry that is cut in two.
\* Whether the whole parses depends on where the cut is.
Entries(f) ==
  IF f \in Config THEN f ELSE IF f \in Garbled THEN f.broken ELSE Default

Times(s, e) == Cardinality({i \in DOMAIN s : s[i] = e})
Within(s, t) == \A e \in ToSet(s) : Times(s, e) <= Times(t, e)

Mixtures(c) ==
  LET old == Entries(file)
      \* What is in c already is not longer than c.
      Tails == IF Within(old.host, c.host) /\ Within(old.client, c.client) THEN {Default}
               ELSE [host : Suffixes(old.host), client : Suffixes(old.client)]
      Joined(e) == [host |-> c.host \o e.host, client |-> c.client \o e.client]
  IN {Joined(e) : e \in Tails} \cup {[broken |-> Joined(e)] : e \in Tails}

\* To fill the file: alone, or over the other's text.
Fills(c) == IF file = Blank THEN {c} ELSE {c} \cup Mixtures(c)

\* What is on disk when filling breaks off after some of the entries.  The
\* tables of the last list that is printed may be complete up to some entry,
\* and then the text parses.
Heads(s) == {SubSeq(s, 1, n) : n \in 1..Len(s)}
CutOff(c) ==
  IF c.client # <<>> THEN {[c EXCEPT !.client = s] : s \in Heads(c.client)}
                     ELSE {[c EXCEPT !.host = s] : s \in Heads(c.host)}
Begun(c) ==
  {[c EXCEPT !.client = s] : s \in Prefixes(c.client)}
    \cup {[host |-> s, client |-> <<>>] : s \in Prefixes(c.host)}

Parts(c) ==
  {file} \cup IF file = Blank THEN CutOff(c) \cup {[broken |-> b] : b \in Begun(c)}
                             ELSE UNION {Mixtures(b) : b \in Begun(c)}

Call(p) ==
  /\ at[p] = "uncalled"
  /\ \E c \in Command : cmd' = [cmd EXCEPT ![p] = c]
  /\ at' = [at EXCEPT ![p] = "load"]
  /\ UNCHANGED <<file, mem, tun, calm, torn>>

\* The process ends, and its memory, tasks and sockets with it.
Ends(p, how) ==
  /\ at' = [at EXCEPT ![p] = how]
  /\ cmd' = [cmd EXCEPT ![p] = None]
  /\ mem' = [mem EXCEPT ![p] = Default]
  /\ tun' = [tun EXCEPT ![p] = NoTunnels]

Return(p, how) == Ends(p, how) /\ UNCHANGED <<file, calm, torn>>

\* load_config: there is no file.
FindsNoFile(p) ==
  /\ at[p] = "load"
  /\ file = NoFile
  /\ at' = [at EXCEPT ![p] = "create"]
  /\ calm' = (calm /\ Editors = {})
  /\ UNCHANGED <<file, cmd, mem, tun, torn>>

\* It is created without another look.
CreatesFile_Unread(p) ==
  /\ at[p] = "create"
  /\ file' = Blank
  /\ mem' = [mem EXCEPT ![p] = file]
  /\ at' = [at EXCEPT ![p] = "fill"]
  /\ UNCHANGED <<cmd, tun, calm, torn>>

CreatesFile(p) ==
  /\ at[p] = "create"
  /\ file' = Blank
  /\ mem' = [mem EXCEPT ![p] = Default]
  /\ at' = [at EXCEPT ![p] = "fill"]
  /\ torn' = (torn \/ Writers # {})
  /\ UNCHANGED <<cmd, tun, calm>>

\* load_config: the file is read and parsed.
Loads(p) ==
  /\ at[p] = "load"
  /\ file \in Config
  /\ mem' = [mem EXCEPT ![p] = file]
  /\ at' = [at EXCEPT ![p] = "loaded"]
  /\ calm' = (calm /\ (cmd[p].do \in Editing => Editors = {}))
  /\ UNCHANGED <<file, cmd, tun, torn>>

LoadFails(p) ==
  /\ at[p] = "load"
  /\ file \in {Blank} \cup Garbled
  /\ Return(p, "failed")

\* The second half of std::fs::write, of the default or of a change.
Written(p) ==
  /\ p \in Writers
  /\ file' \in Fills(mem[p])
  /\ IF at[p] = "fill"
     THEN at' = [at EXCEPT ![p] = "loaded"] /\ UNCHANGED <<cmd, mem, tun>>
     ELSE Ends(p, "done")
  /\ UNCHANGED <<calm, torn>>

\* The disk is full, or the process dies.
SaveCutOff(p) ==
  /\ p \in Writers
  /\ file' \in Parts(mem[p])
  /\ Ends(p, "failed")
  /\ calm' = FALSE
  /\ UNCHANGED torn

-----------------------------------------------------------------------------
(* The commands that edit and list.                                        *)

\* save_config, first half: the file is truncated.
Save(p, c) ==
  /\ mem' = [mem EXCEPT ![p] = c]
  /\ file' = Blank
  /\ at' = [at EXCEPT ![p] = "save"]
  /\ torn' = (torn \/ Writers # {})
  /\ UNCHANGED <<cmd, tun, calm>>

Taken(place, entries) == \E e \in ToSet(entries) : e.place = place

\* push and a stable sort by name of a list that was sorted.
Inserted(s, e) ==
  InsertAt(s, Cardinality({i \in DOMAIN s : s[i].name <= e.name}) + 1, e)

\* gen_secret, here and with a generator that is seeded the same each time.
NewSecret_Seeded(p) == CHOOSE k \in Key : TRUE
NewSecret(p) == p

\* The file is opened for writing before the entry is looked for.
CreateHostTunnel_Opens(p) ==
  LET c == mem[p]  new == [kind |-> "host", name |-> cmd[p].name,
                           place |-> cmd[p].place, secret |-> NewSecret(p)]
  IN /\ at[p] = "loaded"
     /\ cmd[p].do = "add-host"
     /\ IF Taken(new.place, c.host)
        THEN Ends(p, "done") /\ file' = Blank /\ UNCHANGED <<calm, torn>>
        ELSE Save(p, [c EXCEPT !.host = Inserted(@, new)])

CreateHostTunnel(p) ==
  LET c == mem[p]  new == [kind |-> "host", name |-> cmd[p].name,
                           place |-> cmd[p].place, secret |-> NewSecret(p)]
  IN /\ at[p] = "loaded"
     /\ cmd[p].do = "add-host"
     /\ IF Taken(new.place, c.host)
        THEN Return(p, "done")
        ELSE Save(p, [c EXCEPT !.host = Inserted(@, new)])

\* The secret has to be hex, and nothing more.
AddClientTunnel(p) ==
  LET c == mem[p]  new == [kind |-> "client", name |-> cmd[p].name,
                           place |-> cmd[p].place, secret |-> cmd[p].secret]
  IN /\ at[p] = "loaded"
     /\ cmd[p].do = "add-client"
     /\ IF new.secret \notin Secret THEN Return(p, "failed")
        ELSE IF Taken(new.place, c.client) THEN Return(p, "done")
        ELSE Save(p, [c EXCEPT !.client = Inserted(@, new)])

\* position(..) and remove(..), or retain(..).
Without_All(s, n) == SelectSeq(s, LAMBDA e : e.name # n)
Without(s, n) == RemoveAt(s, SelectInSeq(s, LAMBDA e : e.name = n))

RemoveTunnel(p) ==
  LET c == mem[p]  n == cmd[p].name
      Named(s) == \E e \in ToSet(s) : e.name = n
  IN /\ at[p] = "loaded"
     /\ cmd[p].do = "remove"
     /\ IF Named(c.host) THEN Save(p, [c EXCEPT !.host = Without(@, n)])
        ELSE IF Named(c.client) THEN Save(p, [c EXCEPT !.client = Without(@, n)])
        ELSE Return(p, "done")

ListTunnels(p) ==
  /\ at[p] = "loaded"
  /\ cmd[p].do = "list"
  /\ Return(p, "done")

-----------------------------------------------------------------------------
(* The command that runs the tunnels.                                      *)

\* HostState is a map by secret, where a later entry replaces an earlier one.
HostTunnels(c) ==
  {c.host[i] : i \in {i \in DOMAIN c.host :
     \A j \in DOMAIN c.host : c.host[j].secret = c.host[i].secret => j <= i}}

\* create_state fails on a secret that is no key, and where ClientState
\* already has a tunnel for the place.
Unusable(c) ==
  \/ \E e \in ToSet(c.client) : e.secret # "good"
  \/ \E i, j \in DOMAIN c.client : i # j /\ c.client[i].place = c.client[j].place

CreateState(p) ==
  /\ at[p] = "loaded"
  /\ cmd[p].do = "run"
  /\ IF mem[p] = Default THEN Return(p, "done")
     ELSE IF Unusable(mem[p]) THEN Return(p, "failed")
     ELSE /\ at' = [at EXCEPT ![p] = "run"]
          /\ tun' = [tun EXCEPT ![p] =
               [e \in HostTunnels(mem[p]) \cup ToSet(mem[p].client) |-> "created"]]
          /\ UNCHANGED <<file, cmd, mem, calm, torn>>

In(p, kind, how) == {e \in DOMAIN tun[p] : e.kind = kind /\ tun[p][e] = how}

Becomes(p, e, how) ==
  /\ tun' = [tun EXCEPT ![p][e] = how]
  /\ UNCHANGED <<file, cmd, at, mem, calm, torn>>

\* start() of one host tunnel after the other, then connect() of one client
\* tunnel after the other, in the order of the maps.
Startable(p) ==
  IF In(p, "host", "created") # {} THEN In(p, "host", "created")
                                   ELSE In(p, "client", "created")

Starts(p) == \E e \in Startable(p) : Becomes(p, e, "started")

StartFails(p) == Startable(p) # {} /\ Return(p, "failed")

\* join_all would wait for the tasks of the host tunnels too, which never end.
JoinFails_All(p) ==
  /\ at[p] = "run"
  /\ Startable(p) = {}
  /\ \A e \in DOMAIN tun[p] : tun[p][e] = "ended"
  /\ Return(p, "failed")

\* try_join_all is reached when all are started, and returns the first error.
JoinFails(p) ==
  /\ at[p] = "run"
  /\ Startable(p) = {}
  /\ \E e \in DOMAIN tun[p] : tun[p][e] = "ended"
  /\ Return(p, "failed")

\* The listener of a client tunnel binds its address, unless another process
\* has it, lantun or not.
InUse(place) == \E p \in Process : \E e \in In(p, "client", "listening") : e.place = place

Binds(p, e) ==
  /\ e \in In(p, "client", "started")
  /\ \/ ~InUse(e.place) /\ Becomes(p, e, "listening")
     \/ Becomes(p, e, "ended")

\* The listener returns on the first stream that cannot be opened.
ListenerEnds(p, e) ==
  /\ e \in In(p, "client", "listening")
  /\ Becomes(p, e, "ended")

Interrupted(p) == at[p] = "run" /\ Return(p, "failed")

-----------------------------------------------------------------------------
Runs(p) == Starts(p) \/ StartFails(p) \/ JoinFails(p)

Main(p) ==
  \/ FindsNoFile(p) \/ CreatesFile(p) \/ Loads(p) \/ LoadFails(p) \/ Written(p)
  \/ CreateHostTunnel(p) \/ AddClientTunnel(p) \/ RemoveTunnel(p) \/ ListTunnels(p)
  \/ CreateState(p) \/ Runs(p)

Next ==
  \E p \in Process :
    \/ Call(p) \/ Main(p) \/ SaveCutOff(p) \/ Interrupted(p)
    \/ \E e \in DOMAIN tun[p] : Binds(p, e) \/ ListenerEnds(p, e)

Spec == Init /\ [][Next]_vars

\* A process that runs goes on, a start or connect comes to an end one way or
\* the other and a listener gets to its bind.  Nothing makes a user call or
\* interrupt lantun, a listener fail or a save break off.
Fairness ==
  \A p \in Process :
    WF_vars(Runs(p)) /\ WF_vars(\E e \in DOMAIN tun[p] : Binds(p, e))

FairSpec == Spec /\ Fairness

-----------------------------------------------------------------------------
(* Properties.                                                             *)

\* A file that does not parse is the doing of a process that is writing it
\* now, of two that overlapped, or of a save that was cut off (truncation and
\* filling are two steps of save_config, config.rs:74).
Readable == calm /\ Writers = {} => file \in Config \cup {NoFile}

\* Every entry of the configuration that is run has a tunnel of its own, none
\* is replaced by another with its secret ("This value is unique for every
\* existing HostTunnel", host.rs:121) or its place, whatever commands raced
\* and whatever save broke off before, unless two processes were writing the
\* file at one time: a mixture of two texts may hold an entry twice.
NoneDropped ==
  ~torn => \A p \in Process : at[p] = "run" =>
    Cardinality(DOMAIN tun[p]) = Len(mem[p].host) + Len(mem[p].client)

\* The copy of the process that is writing is what the file will hold.
Contents ==
  IF Writers # {} THEN mem[CHOOSE p \in Writers : TRUE]
  ELSE IF file \in Config THEN file ELSE Default

Book == INSTANCE TunnelBook WITH
  hosts <- ToSet(Contents.host), clients <- ToSet(Contents.client)

\* Commands that do not overlap and are not cut off change one tunnel each,
\* or nothing (every branch of main.rs:131-240, with both halves of a save).
ImplementsBook == Book!Spec

\* All tunnels of a process come up, or it ends: also when the listener of an
\* early one fails while a later connect is waited for, and though the tasks
\* of its host tunnels never end (main.rs:111-129).
AllUp(p) ==
  \A e \in DOMAIN tun[p] :
    tun[p][e] = IF e.kind = "host" THEN "started" ELSE "listening"

AllOrNothing == \A p \in Process : at[p] = "run" ~> at[p] = "failed" \/ AllUp(p)
=============================================================================
