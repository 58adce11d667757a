------------------------------- MODULE MCLua -------------------------------
EXTENDS Lua
=============================================================================
