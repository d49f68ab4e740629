------------------------------- MODULE MCHttp -------------------------------
\* The instance that TLC checks; its constants have values in MCHttp.cfg.
EXTENDS HttpSession
=============================================================================
