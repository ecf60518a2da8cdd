-------------------------- MODULE MCArenaRefinement --------------------------
(* Four players on four connections, so that one tick makes two rooms: two *)
(* near the bottom of the ELO scale, one near its top, and one who must    *)
(* register first and is matched with the third.                           *)
EXTENDS ArenaRefinement

MCInitialElo == (1 :> 15) @@ (2 :> 30) @@ (3 :> 1010)

Symmetry == Permutations(Connections)

WithoutSent == <<connections, shutdown, sessions, queue, roomService, battles,
                 accountRepository, now, ticking, events>>

=============================================================================
