---- MODULE MCEventDispatcher ----
EXTENDS EventDispatcher
====
