------------------------------- MODULE Parser -------------------------------
(***************************************************************************)
(* The recursive-descent AST builder of src/CompilerSource/parsing/        *)
(* parser.cpp (class AstBuilder).                                          *)
(*                                                                         *)
(* The lexer is the environment: a finite token stream `input`, chosen in  *)
(* Init, read one token at a time.  The AstBuilder's single mutable field  *)
(* `token` is the index `pos` of the token last returned by                *)
(* lexer->ReadToken() (pos = Len(input)+1 is the end-of-code token, which  *)
(* the lexer keeps returning).  The error handler is the sequence `diags`. *)
(*                                                                         *)
(* TryParseOperand / TryParseExpression are pure functions of the parser   *)
(* state [pos, diags]; one step of the system is one whole call of         *)
(* TryReadStatement made by its caller, which collects the statements it   *)
(* returns in `stmts` until a statement call returns nothing on a block or *)
(* stream terminator.  A call that reaches one of the functions the file   *)
(* leaves without a body (ParseCodeBlock, ParseReturnStatement, ...) flows *)
(* off the end of a value-returning function: undefined behaviour, modelled *)
(* as the parse ending in phase "undefined".                               *)
(***************************************************************************)
EXTENDS Integers, Sequences, SequencesExt, FiniteSets

CONSTANTS
  Alphabet,       \* token kinds the lexer may produce in a run
  MaxLen,         \* longest token stream
  MaxStatements   \* cap on statements collected by the caller

(* Token kinds (the TT_ enumerators of tokens.h, grouped where parser.cpp  *)
(* treats them alike).                                                     *)
TokenKinds == {
  "LIT",       \* TT_IDENTIFIER and the TT_*LITERAL / STRINGLIT / CHARLIT kinds
  "SEMI", "COMMA", "COLON",
  "ASSIGN",    \* TT_ASSIGN, TT_ASSOP
  "MEMBER",    \* TT_DOT, TT_ARROW
  "BINOP",     \* TT_PERCENT ... TT_RSH: binary-only operators
  "QMARK",
  "UNARY",     \* TT_NOT TT_BANG TT_PLUS TT_MINUS TT_STAR TT_AMPERSAND TT_TILDE ++ --
  "LPAREN", "RPAREN", "LBRACKET", "RBRACKET", "LBRACE", "RBRACE",
  "SCOPE",     \* TT_SCOPEACCESS
  "KEYWORD",   \* return exit break continue switch case default for do ...
  "DECL",      \* TT_TYPE_NAME, TT_LOCAL, TT_GLOBAL
  "ORPHAN",    \* TT_S_THEN, TT_S_ELSE
  "CPP",       \* TT_S_TRY TT_S_CATCH TT_S_NEW TT_S_DELETE TT_CLASS TT_STRUCT
  "PPTOK",     \* TTM_WHITESPACE TTM_CONCAT TTM_STRINGIFY
  "ERROR"}     \* TT_ERROR

EOF == "EOF"   \* TT_ENDOFCODE

ASSUME Alphabet \subseteq TokenKinds /\ MaxLen \in Nat /\ MaxStatements \in Nat

(* Precedence:: levels passed to TryParseExpression (precedence.h).        *)
Precedence == {"kMin", "kComma", "kUnaryPrefix", "kScope", "kAll"}

VARIABLES input, pos, diags, stmts, phase
vars == <<input, pos, diags, stmts, phase>>

Kind(i) == IF i \in 1..Len(input) THEN input[i] ELSE EOF

(* AST nodes: kind, index of the token the node was built at, children.   *)
Node(k, at, kids) == [k |-> k, at |-> at, kids |-> kids]
NoNode == Node("None", 0, <<>>)          \* nullptr
Undefined == Node("Undefined", 0, <<>>)  \* value of a function with no body

Res(node, st) == [node |-> node, st |-> st]

(* token = lexer->ReadToken()                                              *)
Read(st) == [st EXCEPT !.pos = IF @ <= Len(input) THEN @ + 1 ELSE @]

(* herr->ReportError / herr->Error / herr->ReportWarning at a token.       *)
Report(st, sev, msg, at) ==
  [st EXCEPT !.diags = Append(@, [sev |-> sev, msg |-> msg, at |-> at])]

(* Tokens that cannot start an operand, and the message TryParseOperand   *)
(* reports for each before skipping it.                                    *)
OperandError == [COLON |-> "label", COMMA |-> "comma", ASSIGN |-> "assign",
                 MEMBER |-> "member", BINOP |-> "binop", QMARK |-> "ternary"]

OperandTerminators == {"LBRACE", "RBRACE", "RPAREN", "RBRACKET", EOF}

RECURSIVE TryParseOperand(_), TryParseExpression(_, _), ArrayElements(_, _)

(* Mutant: the missing-')' branch returns nullptr instead of the group.  *)
ParseParentheticalDropsGroup(st) ==
  LET r == TryParseExpression("kMin", Read(st))
  IN  IF Kind(r.st.pos) = "RPAREN"
      THEN Res(Node("Paren", st.pos, <<r.node>>), Read(r.st))
      ELSE Res(NoNode, Report(r.st, "error", "closeparen", r.st.pos))

(* The TT_BEGINPARENTH case (also reached by falling through from a failed *)
(* unary operand): read, parse at kMin, expect ')'.                        *)
ParseParenthetical(st) ==
  LET r == TryParseExpression("kMin", Read(st))
  IN  IF Kind(r.st.pos) = "RPAREN"
      THEN Res(Node("Paren", st.pos, <<r.node>>), Read(r.st))
      ELSE Res(Node("Paren", st.pos, <<r.node>>),
               Report(r.st, "error", "closeparen", r.st.pos))

(* The while loop of the TT_BEGINBRACKET case: elements parsed at kComma   *)
(* for as long as each is followed by a comma.                             *)
ArrayElements(elems, st) ==
  LET r == TryParseExpression("kComma", st)
  IN  IF r.node = NoNode THEN [elems |-> elems, st |-> r.st]
      ELSE IF Kind(r.st.pos) # "COMMA"
           THEN [elems |-> Append(elems, r.node), st |-> r.st]
           ELSE ArrayElements(Append(elems, r.node), Read(r.st))

ParseArray(st) ==
  LET a == ArrayElements(<<>>, Read(st))
  IN  IF Kind(a.st.pos) = "RBRACKET"
      THEN Res(Node("Array", st.pos, a.elems), Read(a.st))
      ELSE Res(Node("Array", st.pos, a.elems),
               Report(a.st, "error", "closebracket", a.st.pos))

(* Mutant: the unary node takes the operator from `token` (by then the   *)
(* operand's last token) instead of the saved `unary_op`.                  *)
TryParseOperandUnaryFromToken(st0) ==
  LET st == Read(st0)
      t  == Kind(st.pos)
  IN  CASE t \in OperandTerminators -> Res(NoNode, st)
        [] t = "SEMI" -> Res(Node("CodeBlock", st.pos, <<>>), st)
        [] t \in DOMAIN OperandError ->
             Res(NoNode, Read(Report(st, "error", OperandError[t], st.pos)))
        [] t = "UNARY" ->
             LET r == TryParseExpression("kUnaryPrefix", Read(st))
             IN  IF r.node # NoNode
                 THEN Res(Node("Unary", r.st.pos, <<r.node>>), r.st)
                 ELSE ParseParenthetical(Report(r.st, "error", "unary", st.pos))
        [] t = "LPAREN" -> ParseParenthetical(st)
        [] t = "LBRACKET" -> ParseArray(st)
        [] t = "LIT" -> Res(Node("Literal", st.pos, <<>>), st)
        [] OTHER -> Res(NoNode, st)

TryParseOperand(st0) ==
  LET st == Read(st0)
      t  == Kind(st.pos)
  IN  CASE t \in OperandTerminators -> Res(NoNode, st)
        [] t = "SEMI" -> Res(Node("CodeBlock", st.pos, <<>>), st)
        [] t \in DOMAIN OperandError ->
             Res(NoNode, Read(Report(st, "error", OperandError[t], st.pos)))
        [] t = "UNARY" ->
             LET r == TryParseExpression("kUnaryPrefix", Read(st))
             IN  IF r.node # NoNode
                 THEN Res(Node("Unary", st.pos, <<r.node>>), r.st)
                 \* no return after the report: falls into TT_BEGINPARENTH
                 ELSE ParseParenthetical(Report(r.st, "error", "unary", st.pos))
        [] t = "LPAREN" -> ParseParenthetical(st)
        [] t = "LBRACKET" -> ParseArray(st)
        [] t = "LIT" -> Res(Node("Literal", st.pos, <<>>), st)
        [] OTHER -> Res(NoNode, st)  \* scope, keywords, C++ words, TT_ERROR

(* Binary, ternary and postfix operators are a TODO: the precedence is     *)
(* ignored and the operand is the expression.                              *)
TryParseExpression(precedence, st) == TryParseOperand(st)

(* Tokens TryReadStatement hands to TryParseExpression.                    *)
ExpressionStarters == {"COLON", "ASSIGN", "MEMBER", "BINOP", "QMARK",
                       "UNARY", "LPAREN", "LBRACKET", "LIT", "SCOPE"}

(* Tokens that dispatch to a parse function parser.cpp leaves empty.       *)
UnimplementedStarters == {"LBRACE", "KEYWORD", "DECL"}

(* Tokens reported and skipped, with their message.                        *)
StatementError == [PPTOK |-> "pptoken", ERROR |-> "badtoken", COMMA |-> "comma",
                   RPAREN |-> "unmatchedparen", RBRACKET |-> "unmatchedbracket",
                   ORPHAN |-> "orphan", CPP |-> "cppkeyword"]

(* Mutant: errors reported against the stale token, before the read.     *)
TryReadStatementStaleReport(st0) ==
  LET st == Read(st0)
      t  == Kind(st.pos)
  IN  CASE t \in DOMAIN StatementError ->
             Res(NoNode, Read(Report(st, "error", StatementError[t], st0.pos)))
        [] t = "SEMI" ->
             Res(Node("CodeBlock", st.pos, <<>>),
                 Read(Report(st, "warning", "emptystatement", st.pos)))
        [] t \in ExpressionStarters ->
             TryParseExpression(IF t = "LIT" THEN "kScope" ELSE "kAll", st)
        [] t \in UnimplementedStarters -> Res(Undefined, st)
        [] t \in {"RBRACE", EOF} -> Res(NoNode, st)

TryReadStatement(st0) ==
  LET st == Read(st0)
      t  == Kind(st.pos)
  IN  CASE t \in DOMAIN StatementError ->
             Res(NoNode, Read(Report(st, "error", StatementError[t], st.pos)))
        [] t = "SEMI" ->
             Res(Node("CodeBlock", st.pos, <<>>),
                 Read(Report(st, "warning", "emptystatement", st.pos)))
        [] t \in ExpressionStarters ->
             TryParseExpression(IF t = "LIT" THEN "kScope" ELSE "kAll", st)
        [] t \in UnimplementedStarters -> Res(Undefined, st)
        [] t \in {"RBRACE", EOF} -> Res(NoNode, st)

-----------------------------------------------------------------------------
Init ==
  /\ input \in UNION {[1..n -> Alphabet] : n \in 0..MaxLen}
  /\ pos = 0
  /\ diags = <<>>
  /\ stmts = <<>>
  /\ phase = "parsing"

(* One call of TryReadStatement by the code that collects a block.  The    *)
(* caller stops when the call yields nothing on '}' or end of code.        *)
ReadStatement ==
  /\ phase = "parsing"
  /\ Len(stmts) < MaxStatements
  /\ LET r == TryReadStatement([pos |-> pos, diags |-> diags])
     IN  /\ pos' = r.st.pos
         /\ diags' = r.st.diags
         /\ stmts' = IF r.node \in {NoNode, Undefined} THEN stmts
                     ELSE Append(stmts, r.node)
         /\ phase' = CASE r.node = Undefined -> "undefined"
                       [] r.node = NoNode /\ Kind(r.st.pos) \in {"RBRACE", EOF}
                            -> "done"
                       [] OTHER -> "parsing"
  /\ UNCHANGED input

Next == ReadStatement

Spec == Init /\ [][Next]_vars

-----------------------------------------------------------------------------
NodeKinds == {"Literal", "Paren", "Unary", "Array", "CodeBlock"}

TypeOK ==
  /\ input \in Seq(Alphabet) /\ Len(input) <= MaxLen
  /\ pos \in 0..Len(input) + 1
  /\ \A i \in DOMAIN diags :
       /\ diags[i].sev \in {"error", "warning"}
       /\ diags[i].at \in 1..pos
  /\ \A i \in DOMAIN stmts : stmts[i].k \in NodeKinds
  /\ phase \in {"parsing", "done", "undefined"}

(* Token indices of a subtree, and of a sequence of subtrees, in          *)
(* pre-order (absent children contribute nothing).                        *)
RECURSIVE Positions(_), SeqPositions(_)
Positions(n) == IF n = NoNode THEN <<>> ELSE <<n.at>> \o SeqPositions(n.kids)
SeqPositions(ns) ==
  IF ns = <<>> THEN <<>> ELSE Positions(Head(ns)) \o SeqPositions(Tail(ns))

TreePositions == SeqPositions(stmts)

RECURSIVE SubNodes(_)
SubNodes(n) ==
  IF n = NoNode THEN {}
  ELSE {n} \cup UNION {SubNodes(n.kids[i]) : i \in DOMAIN n.kids}

TreeNodes == UNION {SubNodes(stmts[i]) : i \in DOMAIN stmts}

DiagsWith(msg) == {i \in DOMAIN diags : diags[i].msg = msg}
NodesOfKind(k) == {n \in TreeNodes : n.k = k}

(* The AST is a strict tree over the consumed tokens in source order: no  *)
(* token is used by two nodes, a child never precedes its parent or an    *)
(* earlier sibling, and no node names a token the lexer has not yet       *)
(* returned (TryParseOperand, ArrayElements and the caller's collection). *)
TreeInSourceOrder ==
  LET p == TreePositions
  IN  /\ \A i \in 1..Len(p) - 1 : p[i] < p[i + 1]
      /\ \A i \in DOMAIN p : p[i] \in 1..pos

(* Recovery by assumption: a '(' or '[' group whose closer is missing is  *)
(* reported and still kept, so every "expected closing parenthesis" and   *)
(* "expected closing ]" diagnostic has its own Parenthetical / Array node *)
(* in the tree (ParseParenthetical, ParseArray, TryParseOperand's unary   *)
(* case, and the caller appending every non-null statement).              *)
RecoveryKeepsGroups ==
  /\ Cardinality(DiagsWith("closeparen")) <= Cardinality(NodesOfKind("Paren"))
  /\ Cardinality(DiagsWith("closebracket")) <= Cardinality(NodesOfKind("Array"))

(* Recovery discipline of the spec (sections 4.1, 4.3, 7): a token the    *)
(* parser consumes ends up either in a node or in a diagnostic.  Checked  *)
(* for identifiers and literals: TryReadStatement reads the first token  *)
(* of an expression statement and TryParseExpression -> TryParseOperand  *)
(* then reads the next one before looking, so every literal the lexer    *)
(* has returned is in the tree or reported.                              *)
TokensAccounted ==
  \A i \in 1..Len(input) :
    (i <= pos /\ input[i] = "LIT") =>
      \/ i \in Range(TreePositions)
      \/ \E d \in DOMAIN diags : diags[d].at = i

(* A failed unary operand yields no node (spec 4.1): no Parenthetical is *)
(* built except at a '(' token.  TryParseOperand's unary case has no     *)
(* return after its report and falls into the TT_BEGINPARENTH case.      *)
NoPhantomParenthetical == \A n \in NodesOfKind("Paren") : Kind(n.at) = "LPAREN"

=============================================================================
