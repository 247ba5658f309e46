------------------------------ MODULE MCScanner ------------------------------
(* Scanner on all short files.                                             *)
EXTENDS Scanner

Texts(chars, n) == UNION {[1..k -> chars] : k \in 0..n}

(* Every class of characters; comments, strings and numbers at length.     *)
ShortFiles ==
  Texts(Chars \ {"space"}, 3) \cup Texts({"/", "*", "1"}, 6) \cup
  Texts({"/", "*", "nul"}, 6) \cup Texts({"0", "1", "x"}, 5) \cup
  Texts({"1", "x", "dot"}, 4) \cup
  Texts({"/", "quote", "nl"}, 5) \cup Texts({"apos", "1", "nl"}, 5) \cup
  Texts({"apos", "nul", "1"}, 4)

(* A comment that ends, and a token behind it.                             *)
CommentFiles == {<<"/", "*", "x", "*", "/", "1">>}
=============================================================================
