-------------------------- MODULE MCStagingUpload --------------------------
(* Two models of different sizes: the second batch of a slot may be larger *)
(* or smaller than the first.                                              *)
EXTENDS StagingUpload

CONSTANTS helmet, crate

TwoModels == {helmet, crate}

TwoLengths ==
  [d \in TwoModels \X {"texture", "vertices", "indices"} |->
     IF d[2] = "indices" THEN 1 ELSE IF d[1] = helmet THEN 2 ELSE 1]
=============================================================================
