------------------------- MODULE MCRegisterRewrite -------------------------
(* RegisterRewrite over every opcode the first switch names, a plain and a *)
(* complex-case jump, and an opcode with no register operand.              *)
EXTENDS ByteCodeGenerator

MCOpcodes ==
  DOMAIN (LoadStoreOperands @@ ObjectOperands @@ CallOperands)
  \cup {"Jump", "JumpComplexCase", "End"}
=============================================================================
