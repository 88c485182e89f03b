----------------------------- MODULE MCSharing -----------------------------
(***************************************************************************)
(* FiberSharing on small instances.                                         *)
(***************************************************************************)
EXTENDS FiberSharing, TLC

CONSTANTS a, b, c, d, k1, k2

Four == {a, b, c, d}
Three == {a, b, c}
Two == {a, b}
OtherTwo == {c, d}
Keys == {k1, k2}
Each(w, x, y, z) == a :> w @@ b :> x @@ c :> y @@ d :> z

(* Two keys and room for one of them; two of the clients may be interrupted,  *)
(* and the values of these may expire.                                      *)
Mixed ==
  {Each(first, <<"refresh", k1>>, third, <<"get", k1>>) :
     first \in {<<"get", k1>>, <<"set", k1>>},
     third \in {<<"invalidate", k1>>, <<"get", k2>>}}
  \cup {Each(<<"get", k1>>, <<"refresh", k1>>, <<"invalidateAll", k1>>, <<last, k1>>) :
          last \in {"getOption", "getOptionComplete", "refresh"}}

(* A sequential scope, a sequential one forked from it, and from that one that *)
(* closes two at a time; users add two finalizers.                           *)
Parents == "child" :> "root" @@ "grandchild" :> "child"
Widths == "root" :> 1 @@ "child" :> 1 @@ "grandchild" :> 2

(* Two offers, a take, and one more of any kind.                             *)
Handed == {Each("offer", "offer", "take", last) : last \in {"offer", "take", "poll"}}

(* Two tokens, which one of the callers may need at once.                     *)
Few == {a :> 1 @@ b :> 1 @@ c :> n : n \in 1..2}

(* Two that sleep twice, for as long as each other or not, one of them perhaps  *)
(* for no time; and one that moves the clock twice, perhaps back, or two that   *)
(* do it once.                                                              *)
Sleeps ==
  {a :> <<first, 1>> @@ b :> <<second, third>> :
     first \in 1..2, second \in 1..3, third \in 0..1}
Moves ==
  {c :> <<<<"adjust", 2>>, next>> @@ d :> <<>> :
     next \in {<<"adjust", 2>>, <<"setTime", 1>>, <<"setTime", 4>>}}
  \cup {c :> <<<<"adjust", 3>>>> @@ d :> <<<<"adjust", 2>>>>}
=============================================================================
