---- MODULE MCFrontend ----
EXTENDS Frontend
====
