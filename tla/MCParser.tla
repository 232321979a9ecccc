------------------------------ MODULE MCParser ------------------------------
(* Model-checking instances of Parser: which token kinds the lexer may     *)
(* produce and how long the streams are.                                   *)
EXTENDS Parser

(* Every token kind parser.cpp distinguishes, for short streams.           *)
MCAlphabetAll == TokenKinds
=============================================================================
