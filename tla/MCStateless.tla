---------------------------- MODULE MCStateless -------------------------------
EXTENDS Stateless

(* Numbers of transforms and strides below, at and above what fits; among  *)
(* them some whose product exceeds a size_t.  Buffers start right behind   *)
(* one another, or a float too early.                                      *)
SomeBatches ==
  {[size |-> size, count |-> count, stride |-> stride, real |-> 0, imag |-> imag,
    real_floats |-> floats, imag_floats |-> floats - less] :
     size \in Sizes, count \in {0, 1, 3, 17}, stride \in {0, 16, 35, 64},
     imag \in {4 * 102, 4 * 102 - 4, 4 * 4}, floats \in {4, 8, 102}, less \in {0, 1}}
=============================================================================
