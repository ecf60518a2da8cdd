---------------------------- MODULE MCArenaSystem ----------------------------
(* Two players who match at once; the second has to register first. *)
EXTENDS ArenaSystem

CONSTANTS p1, p2

MCInitialElo == 1 :> 1010

MCBothEnrolled == (1 :> 1010) @@ (2 :> 1000)

MCAccountOf == (p1 :> 1) @@ (p2 :> 2)

\* `sent` is in `down` already.
WithoutSent == <<connections, shutdown, sessions, queue, roomService, battles,
                 accountRepository, now, ticking, events, client, up, down,
                 nextConnId>>

=============================================================================
