---------------------------- MODULE CommandsInv -----------------------------
(***************************************************************************)
(* Why the safety properties of Commands hold: an invariant every step of  *)
(* the calls of lantun preserves, in parts, each about one mechanism of    *)
(* main.rs and config.rs.  CommandsProofs proves that it is inductive.     *)
(***************************************************************************)
EXTENDS Commands

\* A process has a command from its call to its end.
Called == \A p \in Process : at[p] \notin {"uncalled"} \cup Over => cmd[p] \in Command

\* The secrets a host tunnel may have by now: a process that adds one draws
\* it before it saves, and that is the last it does.
Drawn == Key \cup {p \in Process : at[p] \in {"save"} \cup Over}

Made(c) == OwnSecrets(c.host) /\ \A i \in DOMAIN c.host : c.host[i].secret \in Drawn

\* As long as no two processes wrote at one time, the one that writes fills a
\* file it has truncated itself.
OneWriter ==
  ~torn => /\ \A p, q \in Writers : p = q
           /\ Writers # {} => file = Blank

\* As long as no two processes wrote at one time, each host tunnel has a secret
\* of its own, on disk and in every copy: commands that load before another
\* saves, and saves that break off, may lose entries, not repeat one.
EachMade ==
  ~torn => /\ file \in Config => Made(file)
           /\ \A p \in Process : Made(mem[p])

\* Only lantun without a command has tunnels, and they are the ones of its
\* configuration.
Tunnels ==
  /\ tun = [p \in Process |-> [e \in DOMAIN tun[p] |-> tun[p][e]]]
  /\ \A p \in Process :
       /\ at[p] # "run" => DOMAIN tun[p] = {}
       /\ at[p] = "run" =>
            /\ ~Unusable(mem[p])
            /\ DOMAIN tun[p] = HostTunnels(mem[p]) \cup ToSet(mem[p].client)

\* While the commands are calm one of them at a time has a copy it may write
\* back, the file is truncated only while it writes, no two write at one time,
\* and what is written back is a change of what the file held.
Alone == calm => \A p, q \in Editors : p = q

Whole == calm => file \notin Garbled /\ (file = Blank <=> Writers # {})

Apart == calm => ~torn

Current ==
  calm => \A p \in Process :
    /\ at[p] = "create" => file = NoFile
    /\ at[p] = "fill" => mem[p] = Default
    /\ at[p] = "loaded" /\ cmd[p].do \in Editing => mem[p] = file

IInv ==
  /\ TypeOK /\ Called /\ OneWriter /\ EachMade /\ Tunnels
  /\ Alone /\ Whole /\ Apart /\ Current

\* No two entries of a list have one place: a new entry is looked for first
\* (main.rs:150 and main.rs:193), in the copy it is added to.
OwnPlaces(s) == \A i, j \in DOMAIN s : s[i].place = s[j].place => i = j

Placed(c) == OwnPlaces(c.host) /\ OwnPlaces(c.client)

EachPlaced ==
  ~torn => /\ file \in Config => Placed(file)
           /\ \A p \in Process : Placed(mem[p])
=============================================================================
