------------------------------- MODULE MCVendor -------------------------------
(***************************************************************************)
(* Three modules, of which one comes to import another and one to drop a   *)
(* file.                                                                   *)
(***************************************************************************)
EXTENDS Vendor, TLC

Lib == <<"example.com", "lib">>
App == <<"example.com", "app">>

Snap(files, imports) == [files |-> files, imports |-> imports]
Two == <<"a.cue">> :> 1 @@ <<"p", "b.cue">> :> 1
One == <<"a.cue">> :> 2

ThreeModules == {Lib, App, <<"example.com", "sub">>}
ThreeSnapshots ==
  Lib :> <<Snap(Two, {}), Snap(One, {})>>
  @@ App :> <<Snap(One, {App}), Snap(Two, {Lib \o <<"p">>})>>
  @@ <<"example.com", "sub">> :> <<Snap(One, {App})>>
=============================================================================
