----------------------------- MODULE MCProject -----------------------------
EXTENDS Project

MCProtos == {{}, {"Service_Add"}}
=============================================================================
