-------------------------------- MODULE Sign --------------------------------
(***************************************************************************)
(* The sign lattice of project/sign.cpp: the enumeration SIGN and the      *)
(* functions the analysis folds over instructions and paths.               *)
(*                                                                         *)
(* TOP is "no value seen yet" and BOTTOM is "any value", so meeting moves  *)
(* down:                                                                   *)
(*                           TOP                                           *)
(*                 NEGATIVE  ZERO  POSITIVE                                *)
(*                          BOTTOM                                         *)
(*                                                                         *)
(* INVALID is what the functions return for a left operand outside the     *)
(* enumeration's first five members.                                       *)
(***************************************************************************)
EXTENDS Integers

TOP      == "TOP"
BOTTOM   == "BOTTOM"
ZERO     == "ZERO"
POSITIVE == "POSITIVE"
NEGATIVE == "NEGATIVE"
INVALID  == "INVALID"

Definite == {ZERO, POSITIVE, NEGATIVE}
SIGN     == {TOP, BOTTOM} \cup Definite

\* Mutant: no case for ZERO.
SIGN_negateNotZero(s) ==
  CASE s \in {BOTTOM, TOP} -> s
    [] s = POSITIVE        -> NEGATIVE
    [] s = NEGATIVE        -> POSITIVE
    [] OTHER               -> INVALID

SIGN_negate(s) ==
  CASE s \in {BOTTOM, TOP, ZERO} -> s
    [] s = POSITIVE              -> NEGATIVE
    [] s = NEGATIVE              -> POSITIVE
    [] OTHER                     -> INVALID

SIGN_meet(l, r) ==
  CASE l = BOTTOM     -> BOTTOM
    [] l = TOP        -> r
    [] l \in Definite -> IF r \in {TOP, l} THEN l ELSE BOTTOM
    [] OTHER          -> INVALID

\* TOP is neutral on either side: an operand not seen yet adds nothing.
SIGN_plus(l, r) ==
  CASE l = BOTTOM                 -> BOTTOM
    [] l = TOP                    -> r
    [] l = ZERO                   -> IF r = TOP THEN ZERO
                                     ELSE IF r \in Definite THEN r ELSE BOTTOM
    [] l \in {POSITIVE, NEGATIVE} -> IF r \in {TOP, ZERO, l} THEN l ELSE BOTTOM
    [] OTHER                      -> INVALID

\* Mutant: NEGATIVE times NEGATIVE is NEGATIVE.
SIGN_multUnsigned(l, r) ==
  CASE l = BOTTOM -> BOTTOM
    [] l = TOP    -> r
    [] l = ZERO   -> IF r \in {TOP} \cup Definite THEN ZERO ELSE BOTTOM
    [] OTHER      -> IF r \in Definite THEN r ELSE BOTTOM

\* NEGATIVE * TOP is POSITIVE, although TOP * NEGATIVE is NEGATIVE.
SIGN_mult(l, r) ==
  CASE l = BOTTOM   -> BOTTOM
    [] l = TOP      -> r
    [] l = ZERO     -> IF r \in {TOP} \cup Definite THEN ZERO ELSE BOTTOM
    [] l = POSITIVE -> IF r = TOP THEN POSITIVE
                       ELSE IF r \in Definite THEN r ELSE BOTTOM
    [] l = NEGATIVE -> IF r = TOP THEN POSITIVE
                       ELSE IF r \in Definite THEN SIGN_negate(r) ELSE BOTTOM
    [] OTHER        -> INVALID

-----------------------------------------------------------------------------
(***************************************************************************)
(* What a sign says: the order of the lattice, and the integers it stands  *)
(* for.                                                                    *)
(***************************************************************************)

\* The sign signOf gives to a ConstantInt: isZero, isNegative, otherwise.
SignOfConstant(v) ==
  IF v = 0 THEN ZERO ELSE IF v < 0 THEN NEGATIVE ELSE POSITIVE

AtMost(l, r) == SIGN_meet(l, r) = l

\* No integer has sign TOP, every integer has sign BOTTOM.
HasSign(v, s) == s = BOTTOM \/ s = SignOfConstant(v)
=============================================================================
