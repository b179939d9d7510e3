------------------------------- MODULE Values --------------------------------
(***************************************************************************)
(* A value on its way between Ruby and SQLite: bound to a parameter, passed*)
(* through functions written in Ruby (each returns its argument), and read *)
(* from a column.                                                          *)
(*                                                                         *)
(* Integers are scaled down: an int64 has Width bits, a fixnum one bit less*)
(* than a long, and a double represents integers of up to Mantissa bits.   *)
(* A text is its characters and the coding of its bytes; the encoding with *)
(* which Ruby tags a string says how the bytes are to be read.             *)
(***************************************************************************)
EXTENDS Integers

CONSTANTS
    Width,      \* bits of an int64
    LongWidths, \* bits of a C long, on the platforms considered
    Mantissa,   \* bits of the mantissa of a double
    Native,     \* byte order of the machine: "utf16le" or "utf16be"
    MaxCalls    \* bound: calls of a function on the way

ASSUME ValuesAssumption ==
    /\ Width \in Nat /\ LongWidths \subseteq 2..Width
    /\ Mantissa \in 1..Width
    /\ Native \in {"utf16le", "utf16be"}
    /\ MaxCalls \in Nat

(* What the proofs need of exponentiation, which is not in the arithmetic  *)
(* of the provers.                                                         *)
ASSUME PowersOfTwo ==
    /\ \A k \in 0..Width : 2^k \in Nat \ {0}
    /\ 2^Width = 2 * 2^(Width - 1)
    /\ \A w \in LongWidths : 2^(w - 2) <= 2^(Width - 1)

VARIABLES
    longWidth, \* bits of a C long, fixed when the extension is compiled
    given,     \* the Ruby value given to bind_param
    cell,      \* the value in SQLite
    bound,     \* it got there as a parameter, not as the result of a function
    calls,     \* functions it has passed through
    internal,  \* Encoding.default_internal
    got        \* the Ruby value read, or the exception

valuesVars == <<longWidth, given, cell, bound, calls, internal, got>>

Int64 == -(2^(Width - 1))..2^(Width - 1) - 1
Fixnum == -(2^(longWidth - 2))..2^(longWidth - 2) - 1

(* The Ruby integers considered: beyond the two ends of Int64 and of what  *)
(* Width bits can hold.                                                    *)
Integer == -(2^Width) - 2..2^Width + 2

Abs(n) == IF n < 0 THEN -n ELSE n

(* The integer nearest to n that a double represents, ties to even: a      *)
(* double of magnitude below 2^(Mantissa + e) is a multiple of 2^e.        *)
Double(n) ==
    LET e == CHOOSE k \in 0..Width :
                /\ Abs(n) < 2^(Mantissa + k)
                /\ k = 0 \/ Abs(n) >= 2^(Mantissa + k - 1)
        unit == 2^e
        q == Abs(n) \div unit
        r == Abs(n) % unit
        up == IF 2 * r > unit \/ (2 * r = unit /\ q % 2 = 1) THEN 1 ELSE 0
        m == (q + up) * unit
    IN  IF n < 0 THEN -m ELSE m

-----------------------------------------------------------------------------
(* Ruby values.                                                            *)

Chars == {"ascii", "wide"}

(* What the encodings other than UTF-16 have in common are the bytes of    *)
(* ASCII characters.                                                       *)
Bytes(c, coding) ==
    [chars |-> c,
     coding |-> IF c = "ascii" /\ coding \in {"usascii", "eucjp"}
                THEN "utf8" ELSE coding]

Coding == {"utf8", "eucjp", "utf16le", "utf16be"}

Nothing == [chars |-> "none", coding |-> "none"]

Value(is, n, enc, bytes) == [is |-> is, n |-> n, enc |-> enc, bytes |-> bytes]

Whole(n)    == Value("int", n, "none", Nothing)
Float(n)    == Value("float", n, "none", Nothing)
Str(enc, b) == Value("string", 0, enc, b)
Blob(b)     == Value("blob", 0, "any", b)       \* class SQLite3::Blob
NilValue    == Value("nil", 0, "none", Nothing)
Object      == Value("object", 0, "none", Nothing)  \* of no mapped class

(* Strings tagged with the encoding of their bytes, and binary strings.    *)
Strings ==
    {Str(e, Bytes(c, e)) : e \in Coding, c \in Chars}
        \cup {Str("usascii", Bytes("ascii", "usascii"))}
        \cup {Str("binary", Bytes(c, e)) : e \in Coding, c \in Chars}

RubyValue ==
    {Whole(n) : n \in Integer} \cup {Float(Double(n)) : n \in Integer}
        \cup Strings \cup {Blob(Bytes(c, e)) : e \in Coding, c \in Chars}
        \cup {NilValue, Object}

(* The characters a Ruby string shows.                                     *)
Shown(v) == IF Bytes(v.bytes.chars, v.enc) = v.bytes THEN v.bytes.chars
            ELSE "garbled"

-----------------------------------------------------------------------------
(* Storage: the values of SQLite.                                          *)

Cell(type, n, bytes) == [type |-> type, n |-> n, bytes |-> bytes]

INTEGER(n) == Cell("INTEGER", n, Nothing)
REAL(n)    == Cell("REAL", n, Nothing)
TEXT(b)    == Cell("TEXT", 0, b)
BLOB(b)    == Cell("BLOB", 0, b)
NULL       == Cell("NULL", 0, Nothing)
NoCell     == Cell("none", 0, Nothing)

(* rb_integer_pack into Width bits, two's complement: the sign of n, twice *)
(* if it does not fit, and the bits read as a signed integer.              *)
IntegerPack(n) ==
    LET low == n % 2^Width
    IN  [sign |-> IF n >= 2^Width THEN 2 ELSE IF n > 0 THEN 1
                  ELSE IF n = 0 THEN 0 ELSE IF n >= -(2^Width) THEN -1 ELSE -2,
         result |-> IF low >= 2^(Width - 1) THEN low - 2^Width ELSE low]

(* A definition called No... is a mutant of the one that follows it; only  *)
(* the mutant runs of PROJECT.json use it.                                 *)
NoSignCheck(n) == IntegerPack(n).sign \notin {-2, 2}

(* bignum_to_int64 answers whether n is an int64.                          *)
BignumFits(n) ==
    LET p == IntegerPack(n)
    IN  /\ p.sign \notin {-2, 2}
        /\ p.sign = 1 => p.result >= 0
        /\ p.sign = -1 => p.result < 0

(* sqlite3_bind_text16 takes the bytes to be in the machine's order.       *)
Text16(b) == TEXT([chars |-> IF b.coding = Native THEN b.chars
                             ELSE "garbled",
                   coding |-> "utf8"])

(* A fixnum, a bignum that is an int64, any other bignum.                  *)
IntegerCell(n) ==
    IF n \in Fixnum THEN INTEGER(n)
    ELSE IF BignumFits(n) THEN INTEGER(IntegerPack(n).result)
    ELSE REAL(Double(n))

NoEncode(v) ==
    CASE v.is = "blob" \/ v.enc = "binary" -> BLOB(v.bytes)
      [] v.is = "string" /\ v.enc \in {"utf16le", "utf16be"} -> Text16(v.bytes)
      [] OTHER -> TEXT(v.bytes)

(* Bytes as they are, UTF-16 as it is, everything else encoded to UTF-8.   *)
StringCell(v) ==
    CASE v.is = "blob" \/ v.enc = "binary" -> BLOB(v.bytes)
      [] v.is = "string" /\ v.enc \in {"utf16le", "utf16be"} -> Text16(v.bytes)
      [] OTHER -> TEXT(Bytes(v.bytes.chars, "utf8"))

(* The conversions of bind_param.                                          *)
BindConversion(v) ==
    CASE v.is = "int"   -> IntegerCell(v.n)
      [] v.is = "float" -> REAL(v.n)
      [] v.is = "nil"   -> NULL
      [] OTHER          -> StringCell(v)

NoBignumCase(v) ==
    CASE v.is = "int" -> IF v.n \in Fixnum
                         THEN INTEGER(v.n) ELSE REAL(Double(v.n))
      [] v.is = "float" -> REAL(v.n)
      [] v.is = "nil"   -> NULL
      [] OTHER -> IF v.is = "blob" \/ v.enc = "binary" THEN BLOB(v.bytes)
                  ELSE TEXT(v.bytes)

(* The conversions of set_sqlite3_func_result: a bignum is tried as an     *)
(* int64 only where a long is shorter, and a text is taken byte by byte.   *)
ResultConversion(v) ==
    CASE v.is = "int" -> IF v.n \in Fixnum \/ longWidth < Width
                         THEN IntegerCell(v.n) ELSE REAL(Double(v.n))
      [] v.is = "float" -> REAL(v.n)
      [] v.is = "nil"   -> NULL
      [] OTHER -> IF v.is = "blob" \/ v.enc = "binary" THEN BLOB(v.bytes)
                  ELSE TEXT(v.bytes)

NoBlobCase(c) ==
    CASE c.type = "INTEGER" -> Whole(c.n)
      [] c.type = "REAL"    -> Float(c.n)
      [] c.type = "NULL"    -> NilValue
      [] OTHER              -> Str("utf8", c.bytes)

(* sqlite3val2rb, and the switch in Statement#step.                        *)
RubyOf(c) ==
    CASE c.type = "INTEGER" -> Whole(c.n)
      [] c.type = "REAL"    -> Float(c.n)
      [] c.type = "TEXT"    -> Str("utf8", c.bytes)
      [] c.type = "BLOB"    -> Str("binary", c.bytes)
      [] c.type = "NULL"    -> NilValue

(* rb_str_export_to_enc: a string that cannot be converted stays as it is. *)
Exported(v, enc) ==
    IF v.is # "string" \/ v.enc # "utf8" \/ enc = "none"
          \/ Shown(v) = "garbled"
    THEN v
    ELSE Str(enc, Bytes(v.bytes.chars, enc))

-----------------------------------------------------------------------------
Pending == Value("pending", 0, "none", Nothing)
Raised  == Value("raised", 0, "none", Nothing)

ValuesInit ==
    /\ longWidth \in LongWidths
    /\ given \in RubyValue
    /\ internal \in {"none", "eucjp"}
    /\ cell = NoCell
    /\ bound = FALSE
    /\ calls = 0
    /\ got = Pending

BindParam ==
    /\ cell = NoCell /\ got = Pending
    /\ IF given = Object
       THEN got' = Raised /\ UNCHANGED cell
       ELSE cell' = BindConversion(given) /\ UNCHANGED got
    /\ bound' = TRUE
    /\ UNCHANGED <<longWidth, given, calls, internal>>

(* rb_sqlite3_func_protected; the function returns what it is given.       *)
ApplyFunction ==
    /\ cell # NoCell /\ got = Pending /\ calls < MaxCalls
    /\ cell' = ResultConversion(RubyOf(cell))
    /\ calls' = calls + 1
    /\ UNCHANGED <<longWidth, given, bound, internal, got>>

(* The function returns instead a value of its own, the one given: the     *)
(* statement has no parameter.                                             *)
ReturnValue ==
    /\ cell = NoCell /\ got = Pending /\ calls < MaxCalls
    /\ calls' = calls + 1
    /\ IF given = Object
       THEN got' = Raised /\ UNCHANGED cell
       ELSE cell' = ResultConversion(given) /\ UNCHANGED got
    /\ UNCHANGED <<longWidth, given, bound, internal>>

Step ==
    /\ cell # NoCell /\ got = Pending
    /\ got' = Exported(RubyOf(cell), internal)
    /\ UNCHANGED <<longWidth, given, cell, bound, calls, internal>>

ValuesNext == BindParam \/ ApplyFunction \/ ReturnValue \/ Step

ValuesSpec == ValuesInit /\ [][ValuesNext]_valuesVars

-----------------------------------------------------------------------------
(* Properties.                                                             *)

Read == got \notin {Pending, Raised}

(* An integer that is bound comes back from a column unchanged if it is an *)
(* int64, and as the nearest double otherwise (the type mapping of         *)
(* Statement#bind_param; bignum_to_int64).                                 *)
IntegersComeBack ==
    Read /\ calls = 0 /\ given.is = "int" =>
        got = IF given.n \in Int64 THEN given ELSE Float(Double(given.n))

(* Strings that SQLite will read as they are meant: a parameter in any     *)
(* encoding, UTF-16 only in the byte order of the machine; the result of a *)
(* function only if its bytes are UTF-8.                                   *)
Readable(v) ==
    IF bound THEN v.enc \in {"utf16le", "utf16be"} => v.enc = Native
    ELSE v.bytes.coding = "utf8"

(* A text comes back with its characters, in the encoding the program asked*)
(* for, by way of functions as well (bind_param, set_sqlite3_func_result,  *)
(* Statement#step).                                                        *)
TextComesBack ==
    Read /\ given.is = "string" /\ given.enc # "binary" /\ Readable(given) =>
        /\ Shown(got) = given.bytes.chars
        /\ got.enc = IF internal = "none" THEN "utf8" ELSE internal

(* A Blob or a binary string comes back byte for byte, by way of functions *)
(* as well, and as a binary string whatever its bytes would mean.  A string*)
(* in another encoding that a function returns is marked UTF-8, but has    *)
(* its bytes, so that a program that knows the encoding can restore it     *)
(* (set_sqlite3_func_result, Statement#step); what is UTF-8 after all may  *)
(* be converted on its way out.                                            *)
BytesComeBack ==
    /\ Read /\ (given.is = "blob" \/ given.enc = "binary") =>
          got = Str("binary", given.bytes)
    /\ Read /\ ~bound /\ given.is = "string" /\ given.enc # "binary"
          /\ (given.bytes.coding # "utf8" \/ internal = "none") =>
          got = Str("utf8", given.bytes)

(* A function that returns its argument (set_sqlite3_func_result) leaves   *)
(* every int64 unchanged where a C long is shorter than an int64; where it *)
(* is not, every fixnum, and turns a bignum into the nearest double.       *)
IntegersPassFunctions ==
    Read /\ bound /\ calls > 0 /\ given.is = "int" =>
        got = IF given.n \in (IF longWidth < Width THEN Int64 ELSE Fixnum)
              THEN given ELSE Float(Double(given.n))

(* test/test_database.rb:638, test_function_return_type_round_trip, has a  *)
(* function return its argument and expects the value given.               *)
RoundTrip ==
    Read /\ bound /\ given.is = "int" /\ given.n \in Int64 => got = given

(* lib/sqlite3/statement.rb:52 says that a string in UTF-16LE or UTF-16BE  *)
(* is bound as TEXT.                                                       *)
Utf16IsText ==
    Read /\ bound /\ calls = 0 /\ given.is = "string"
         /\ given.enc \in {"utf16le", "utf16be"} =>
        Shown(got) = given.bytes.chars
=============================================================================
