------------------------ MODULE MCConnectionManager ------------------------
(* Two jobs over two devices: the first registers both and has two tasks on
   one of them; the second registers the other, and a task of it names the one
   that only the first registers. *)
EXTENDS ConnectionManager, TLC

CONSTANTS d1, d2, j1, j2, h1, h2

MCDevice == {d1, d2}
MCJob == {j1, j2}
MCHandling == {h1, h2}
MCJobOf == (h1 :> j1) @@ (h2 :> j2)
MCDevicesOf == (j1 :> {d1, d2}) @@ (j2 :> {d2})
MCTasksOn == (j1 :> (d1 :> 2 @@ d2 :> 0)) @@ (j2 :> (d1 :> 1 @@ d2 :> 1))
=============================================================================
