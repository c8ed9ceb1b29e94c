----------------------------- MODULE MCProject -----------------------------
EXTENDS Project
\* Long work on the knowledge base, or many saves and opens, not both at once.
MCBound == work' + did'.edits + did'.saves + did'.opens <= 5
============================================================================
