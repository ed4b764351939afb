------------------------- MODULE MC_AVClientSession -------------------------
(***************************************************************************)
(* Model-checking instance of AVClientSession: one e-mail address, one     *)
(* contest, a valid configuration and one missing the OTP provider URL.    *)
(***************************************************************************)
EXTENDS AVClientSession

\* A configuration with every service field, and one without the OTP URL.
MCConfigChoices ==
    {[services |-> RequiredServiceFields],
     [services |-> RequiredServiceFields \ {"otp_url"}]}

\* The state without lastError, which no invariant of the passing runs
\* reads: states that differ only in the last error are explored once.
SessionView == <<session, pending, calls, env>>

=============================================================================
