----------------------------- MODULE MCClaims -----------------------------
(* The programs that refute CompilerClaims, each with its Bon source.      *)
EXTENDS CompilerClaims, MCCompiler

(* m(x u8, x u8) {}                                                        *)
RepeatedParam ==
  {Program(<<Function(M, <<Param(X, "u8"), Param(X, "u8")>>, "void", << >>)>>)}

(* m() { let x = x }                                                       *)
OwnValue == {Program(<<Function(M, << >>, "void", <<Let(X, NoType, V(X))>>)>>)}

(* m() u8 { return; }                                                      *)
BareReturn == {Program(<<Function(M, << >>, "u8", <<Return(Nothing)>>)>>)}

(* One function more than a vector has room for at first.                  *)
ManyFunctions == {Program(Many(33))}
===========================================================================
