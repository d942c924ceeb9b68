---------------------------- MODULE MCKbdParser ----------------------------
(***************************************************************************)
(* Reports for model checking KbdParser with two slots: every kind of key, *)
(* alone or with another, a key that changes its slot, an overflow,        *)
(* without modifiers, with either or both Shift keys and with the          *)
(* modifiers of a combination.                                             *)
(***************************************************************************)
EXTENDS KbdParser

CONSTANTS v, s, pause, power

NoKeys == <<NoKey, NoKey>>
Combo == {"leftCtrl", "leftShift"}

MCReports ==
    [mods : {{}}, keys : {NoKeys, <<Caps, v>>, <<v, pause>>, <<power, NoKey>>,
                          <<Overflow, Overflow>>}]
    \cup [mods : {{"rightShift"}, Shifts}, keys : {NoKeys}]
    \cup [mods : {Combo}, keys : {NoKeys, <<Caps, v>>, <<Caps, s>>}]
=============================================================================
