------------------------------ MODULE UserRows ------------------------------
(***************************************************************************)
(* One row of the users table (internal/model/user.go) and the two ways    *)
(* the repository (internal/repository/user_repo.go) writes it.            *)
(*                                                                         *)
(* A row is a function on the columns a request can change after           *)
(* registration.  avatar and bio are written exactly as nickname is, so    *)
(* nickname stands for the three.  A write is a partial row, a function    *)
(* on the columns its UPDATE statement names: gorm builds it from the      *)
(* non-zero fields of a struct (Update) or from a map (UpdateFields).      *)
(***************************************************************************)
EXTENDS Integers

CONSTANTS
    Passwords,  \* stored bcrypt hashes, one value per clear-text password
    Names       \* non-empty nicknames

ASSUME PasswordsAssumption == "" \notin Passwords
ASSUME NamesAssumption == "" \notin Names

Columns == {"password", "nickname", "role", "status"}

StatusNormal == 1
RoleNormal == 1
RoleAdmin == 2

\* The zero value Go gives each column; struct updates skip it.
Zero == [password |-> "", nickname |-> "", role |-> 0, status |-> 0]

Byte == 0 .. 255

\* The conversion uint8(v) of a uint32 request field.
Uint8(v) == v % 256

ColumnValues(k) == IF k = "password" THEN Passwords
                   ELSE IF k = "nickname" THEN Names \cup {""} ELSE Byte

\* A set of assignments to columns, and a whole row.
IsSetList(cols) == DOMAIN cols \subseteq Columns /\ \A k \in DOMAIN cols : cols[k] \in ColumnValues(k)
IsRow(row) == IsSetList(row) /\ DOMAIN row = Columns

\* What a reply shows of a row: all but the password hash.
ToResponse(row) == [k \in Columns \ {"password"} |-> row[k]]

\* Mistake: every column of the struct, as gorm's Save writes them.
EveryColumn(row) == row

\* The SET list of gorm's Updates(struct): every column that is not zero.
NonZero(row) == [k \in {c \in Columns : row[c] # Zero[c]} |-> row[k]]

\* The row after an UPDATE whose SET list is cols.
Assign(row, cols) ==
    [k \in Columns |-> IF k \in DOMAIN cols THEN cols[k] ELSE row[k]]

\* Mistake: the UPDATE is unscoped and reaches soft-deleted rows.
WriteUnscoped(rows, live, u, cols) == [rows EXCEPT ![u] = Assign(@, cols)]

\* Every statement of gorm on users carries "deleted_at IS NULL": an UPDATE of
\* a row that is gone affects nothing and reports no error.
Write(rows, live, u, cols) ==
    IF u \in live THEN [rows EXCEPT ![u] = Assign(@, cols)] ELSE rows

=============================================================================
