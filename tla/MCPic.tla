------------------------------- MODULE MCPic --------------------------------
(***************************************************************************)
(* Three lines per controller, the cascade line among them.  One device on *)
(* the master and two on the slave are enough for a request to wait behind *)
(* another, to be withdrawn, masked or to come back while it is served.    *)
(* One guest masks lines of the master and changes the trigger modes of    *)
(* the slave, the other one changes the order of the slave's lines.        *)
(***************************************************************************)
EXTENDS Pic, TLC

Each(master, slave) == ("master" :> master) @@ ("slave" :> slave)
MCLines == Each({0}, {0, 1})

MaskingGuest == [masks |-> Each({{}, {0}}, {{}}), levels |-> Each({}, {{1}}), rotated |-> {}]
RotatingGuest == [masks |-> Each({{}}, {{}}), levels |-> Each({}, {}), rotated |-> {"slave"}]
MCGuests == {MaskingGuest, RotatingGuest}
=============================================================================
