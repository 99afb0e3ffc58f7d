------------------------------ MODULE MCDiscovery ------------------------------
(***************************************************************************)
(* Three devices: a Blog V4 whose manufacturer the system does not list (as *)
(* on Windows), an imitation whose product it does not list, and a device  *)
(* with IDs of its own that has the serial of the first.                   *)
(***************************************************************************)
EXTENDS Discovery

Trait(ids, serial, manufacturer, product, listed) ==
  [ids |-> ids, serial |-> serial, manufacturer |-> manufacturer, product |-> product, listed |-> listed]

MCDevices == {"v4", "clone", "custom"}
MCTraits ==
  [d \in {"v4", "clone", "custom"} |->
     CASE d = "v4"     -> Trait("standard", "a", "RTLSDRBlog", "Blog V4", {"serial", "product"})
       [] d = "clone"  -> Trait("standard", "b", "Other", "Blog V4", {"serial", "manufacturer"})
       [] d = "custom" -> Trait("own", "a", None, "Other", {"serial"})]
MCCalls == {<<"serial", "a">>, <<"serial", "b">>, <<"index", 0>>, <<"index", 1>>, <<"ids", "own">>}

\* Two builders that may want the same device, while it is plugged in and out.
MCRivals == {"v4", "clone"}
===============================================================================
