-------------------------------- MODULE Post --------------------------------
(***************************************************************************)
(* What a UDP tunnel promises the applications that share it and the       *)
(* service: what is sent may be lost, cut, or run together with what comes *)
(* after it, but every byte that is shown was sent, is shown once and in   *)
(* the order it was sent in, and to the one it was meant for: the service  *)
(* sees a session only with the bytes of the application that has it, and  *)
(* an application only the replies to its own sessions.                    *)
(***************************************************************************)
EXTENDS Naturals, SequencesExt

CONSTANTS
  App,      \* the applications
  Session   \* the sessions, in the order they are opened

VARIABLES
  sent,     \* application -> how many datagrams it has sent
  replies,  \* how many datagrams the service has sent
  owner,    \* the applications the sessions were opened for
  seen,     \* session -> the bytes the service has been shown
  got       \* application -> the bytes it has been shown

vars == <<sent, replies, owner, seen, got>>

Init ==
  /\ sent = [a \in App |-> 0] /\ replies = 0
  /\ owner = <<>>
  /\ seen = [n \in Session |-> <<>>] /\ got = [a \in App |-> <<>>]

Send(a) ==
  /\ sent' = [sent EXCEPT ![a] = @ + 1]
  /\ UNCHANGED <<replies, owner, seen, got>>

Reply ==
  /\ replies' = replies + 1
  /\ UNCHANGED <<sent, owner, seen, got>>

Open(a) ==
  /\ owner' = Append(owner, a)
  /\ UNCHANGED <<sent, replies, seen, got>>

\* Bytes are ordered by their datagrams, and within one by their place.
Before(x, y) == x.n < y.n \/ (x.n = y.n /\ x.i < y.i)

Ascending(bytes) ==
  \A i, j \in DOMAIN bytes : i < j => Before(bytes[i], bytes[j])

\* What the service has seen of an application ascends, in each of its
\* sessions and from each of them to the next.
SeenInOrder(a) ==
  \A n \in DOMAIN owner : owner[n] = a =>
    /\ Ascending(seen[n])
    /\ \A m \in 1..(n - 1) : owner[m] = a =>
         \A i \in DOMAIN seen[m], j \in DOMAIN seen[n] : Before(seen[m][i], seen[n][j])

OnlyAt(f, g, x) == \A y \in DOMAIN f \ {x} : g[y] = f[y]

ShowService(n) ==
  LET a == owner[n] IN
  /\ IsStrictPrefix(seen[n], seen'[n])
  /\ OnlyAt(seen, seen', n)
  /\ \A x \in ToSet(seen'[n]) : x.from = a /\ x.n \in 1..sent[a]
  /\ SeenInOrder(a)'
  /\ UNCHANGED <<sent, replies, owner, got>>

ShowApp(a) ==
  /\ IsStrictPrefix(got[a], got'[a])
  /\ OnlyAt(got, got', a)
  /\ \A x \in ToSet(got'[a]) :
       x.from \in DOMAIN owner /\ owner[x.from] = a /\ x.n \in 1..replies
  /\ Ascending(got'[a])
  /\ UNCHANGED <<sent, replies, owner, seen>>

Next ==
  \/ Reply
  \/ \E a \in App : Send(a) \/ Open(a) \/ ShowApp(a)
  \/ \E n \in DOMAIN owner : ShowService(n)

Spec == Init /\ [][Next]_vars
=============================================================================
