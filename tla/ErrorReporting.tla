--------------------------- MODULE ErrorReporting ---------------------------
(***************************************************************************)
(* What a handler throws and the HTTP status the caller gets for it:       *)
(* AllExceptionsFilter, and the catch blocks of the services that turn     *)
(* errors into others before it.                                           *)
(***************************************************************************)
EXTENDS Naturals

CONSTANT None   \* no response from the other side

ASSUME NoStatusAssumption == None \notin Nat

\* What can be thrown.  An AxiosError carries the status the other service
\* answered, or none if it did not answer.
Http(status) == [kind |-> "http", status |-> status]
Axios(status) == [kind |-> "axios", status |-> status]
Other == [kind |-> "other"]                 \* any other error; "invalidQuery" is
                                            \* a PrismaClientValidationError

\* AllExceptionsFilter.catch
Status(e) ==
  CASE e.kind = "http" -> e.status
    [] e.kind = "axios" -> IF e.status = None THEN 500 ELSE e.status
    [] e.kind = "invalidQuery" -> 400
    [] OTHER -> 500

\* The catch blocks that keep the status of an AxiosError, with a default where
\* there was no answer, and make everything else, HttpExceptions included, an
\* error of one status.
Rethrown(e, noAnswer, otherwise) ==
  IF e.kind = "axios"
    THEN Http(IF e.status = None THEN noAnswer ELSE e.status)
    ELSE Http(otherwise)
=============================================================================
