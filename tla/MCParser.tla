------------------------------ MODULE MCParser ------------------------------
(* Parser on all short inputs.                                             *)
EXTENDS ParserGrammar

(* Every class of tokens.                                                  *)
Everything == AllTokens

(* Functions of statements and calls, without declarations and operators. *)
Statements == {"FUNCTION", "NAME", "TYPE", "OBRACE", "CBRACE", "RETTYPE",
               "OCBRACE", "CCBRACE", "RETURN", "IF", "SEMICOLON", "COMMA"}

(* Inputs are followed up to the first report.                             *)
NoReport == errors = "none"

(* The name of a type stands for nothing but a type.                       *)
TypesAreTypes == look = "TYPE" => Doing("typename") \/ Doing("expect")
=============================================================================
