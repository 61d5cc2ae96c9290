---------------------------- MODULE MCAdmission ----------------------------
(* A small instance of Admission for TLC: two requests carry one GUID, two  *)
(* come from one address, one through a proxy and with a header of its own, *)
(* one from outside the key's networks; the month turns after two minutes.  *)
(* In other behaviours two visitors of the demo share an address.           *)
EXTENDS Admission, TLC

CONSTANTS q1, q2, q3, q4, d1, d2, d3, a, b, x, proxy, g

SmallIp == (q1 :> a @@ q2 :> b @@ q3 :> b @@ q4 :> x @@ d1 :> a @@ d2 :> a @@ d3 :> b)
SmallChain == (q1 :> << >> @@ q2 :> <<a, b, proxy>> @@ q3 :> << >> @@ q4 :> <<a, x>>
               @@ d1 :> <<x, a>> @@ d2 :> << >> @@ d3 :> << >>)
SmallPeer == (q1 :> a @@ q2 :> proxy @@ q3 :> b @@ q4 :> proxy
              @@ d1 :> proxy @@ d2 :> a @@ d3 :> b)
SmallGuid == (q1 :> g @@ q2 :> g @@ q3 :> None @@ q4 :> None
              @@ d1 :> None @@ d2 :> None @@ d3 :> None)
SmallArrivals == {{q1, q2, q3, q4}, {q3, d1, d2, d3}}
SmallSettings == {[cap |-> None, days |-> 1], [cap |-> 3, days |-> 1]}
=============================================================================
