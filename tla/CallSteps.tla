----------------------------- MODULE CallSteps -----------------------------
(* The vocabulary of the method functions (src/servlets/functions).  A       *)
(* method is a C function that is entered again and again: ctx->count says   *)
(* how far it got, ctx->error what the last query said, and every entry      *)
(* sends queries, pushes callbacks and leaves through CTX_RETURN.            *)
(*                                                                           *)
(* The functions are written here as operators                               *)
(*     method(n, e, v, o)                                                    *)
(* of the count n, the error e, the number v of rows the last reply handed   *)
(* over (0: a NULL pointer, Wild: a number taken for a pointer) and o,       *)
(* whether ctx->retval holds an object.                                      *)
(* Their value is the SET of things one entry may do: more than one where    *)
(* the code looks at an argument that the model leaves out.                  *)
EXTENDS Integers, Sequences

OK == "ok"
Same == "same"          \* ctx->error is left alone
NoCount == -1           \* ctx->count is left alone
Wild == -1

(* What one entry does, in the order of the code: clear or set ctx->error,   *)
(* send the queries, push the callbacks (pushed only while ctx->error is 0), *)
(* set ctx->count, ctx->retval ("obj") or the answer ("ret"), or dereference *)
(* NULL ("crash").                                                           *)
Nothing == [ask |-> <<>>, cb |-> <<>>, err |-> Same, count |-> NoCount,
            obj |-> Same, ret |-> FALSE, crash |-> FALSE]

Ask(q) == [Nothing EXCEPT !.ask = <<q>>]
AskCb(q, cb) == [Nothing EXCEPT !.ask = <<q>>, !.cb = <<cb>>]

\* The reply raises the count and enters the method again: cb_bool_rewind,
\* cb_int_rewind (which also makes an error the call's fault) and, with the
\* reply's value, CTX_VALUE_RETURN and CTX_INT_RETURN.
Again(q) == AskCb(q, "rewind")
AgainInt(q) == AskCb(q, "int_rewind")
Value(q) == AskCb(q, "value")

Fail(e) == [Nothing EXCEPT !.err = e]
Cleared(s) == [s EXCEPT !.err = OK]
Hold(s) == [s EXCEPT !.obj = "object"]
\* ctx->retval is what the reply carried, which may be NULL.
HoldValue(s, v) == [s EXCEPT !.obj = IF v = 0 THEN "null" ELSE "object"]
Counting(s, n) == [s EXCEPT !.count = n]
Goto(n) == Counting(Nothing, n)
Answering(s) == [s EXCEPT !.ret = TRUE]
Answer == Answering(Nothing)
Crash == [Nothing EXCEPT !.crash = TRUE]

\* The error that an entry leaves.
After(s, e) == IF s.err = Same THEN e ELSE s.err

Both(s, t) == [s EXCEPT !.ask = s.ask \o t.ask, !.cb = s.cb \o t.cb]
\* The same query k times, and with a callback for each.
Times(k, q) == [Nothing EXCEPT !.ask = [i \in 1..k |-> q]]
TimesCb(k, q, cb) == [Times(k, q) EXCEPT !.cb = [i \in 1..k |-> cb]]

\* A check of the arguments in front of a step.
Checked(s) == {Fail("INVALID_PARAMETER"), s}

(* job_add: the job is inserted and jobs_cb_add waits for its number.        *)
JobAdd == AskCb("addJob", "jobs_cb_add")

(* The last steps of several methods: the job's module is looked up          *)
(* (count n) and the job is added (count n + 1).                             *)
ModuleThenJob(k, n, e, v, q) ==
  IF n = k THEN {Value(q)}
  ELSE IF v = 0 \/ e # OK THEN {Fail("JOB_CREATION_FAILED")}
  ELSE {JobAdd}
=============================================================================
